---- MODULE Spec2Model ----
(***************************************************************************)
(* Sauna supervisor: monitoring service (src/monitoring/service.ts), the   *)
(* local MCB adapter (mcb-local/service.ts) and the notification service   *)
(* (notifications/service.ts, notifications/transform.ts).                 *)
(*                                                                         *)
(* The program is JavaScript: every handler runs to its next `await`       *)
(* without interruption, and other handlers run while it is suspended.     *)
(* One action of the model is one such synchronous segment.                *)
(*                                                                         *)
(* Spec      - the running monitoring loop on the clock of its polling     *)
(*             timer (5 s steps).                                          *)
(* SpecNotif - the notification service on the clock of the notification   *)
(*             cooldowns (60 s steps).                                     *)
(* SpecNotifTest - the notification service with the test route             *)
(*             (POST /api/test-waha).                                      *)
(* SpecLimiter - the cooldown functions of notifications/transform.ts on   *)
(*             instants around the ends of the cooldowns.                  *)
(* SpecMqtt  - the MQTT client (mqtt/service.ts) and its phase accumulator.*)
(* SpecCommand - the MCB taken alone: status updates of the device, button  *)
(*             events and the HTTP command routes (api/routes.tsx).        *)
(* SpecThreshold - checkThresholds taken alone (smart-meter/transform.ts). *)
(* SpecSse   - the SSE broadcaster with its subscribers (sse service).     *)
(* SpecSseSlow - the broadcaster with subscribers that fall behind.        *)
(* SpecLifecycle - startMonitoringLoop / stopMonitoringLoop and what they   *)
(*             leave of the adapters, the ventilator timers and the SSE    *)
(*             clients.                                                    *)
(* SpecVentRace - the ventilator service with calls that come a quarter of  *)
(*             an hour after a timer instant: the delayed-off timeout and  *)
(*             the keep-alive interval come due together.                  *)
(* SpecSaunaVent - the MCB updates of the device with the ventilator calls  *)
(*             the monitoring service makes for them.                      *)
(* SpecFloor - the MCB updates of the device with the floor-heating calls   *)
(*             the monitoring service makes for them                       *)
(*             (floor-heating/service.ts).                                 *)
(* SpecVent  - the ventilator service (ventilator/service.ts): its public  *)
(*             operations called in any order, each cut at its awaits, and *)
(*             its two timers.                                             *)
(***************************************************************************)
EXTENDS Integers, Sequences, FiniteSets, Bags, TLC

\* ------------------------------------------------------------------------
\* Program constants
\* ------------------------------------------------------------------------
AMPERAGE_THRESHOLD == 25
SWITCH_OFF_COOLDOWN_MS == 10000
ConfirmTimeoutMs == 5000
POLLING_INTERVAL_MS == 5000
TemperatureAlertCelsius == 85
COOLDOWN_DURATIONS == [safetyShutdown |-> 60000, temperature |-> 300000]
INITIAL_COOLDOWN_STATE == [safetyShutdown |-> 0, temperature |-> 0]

\* monitoring/schema.ts is not part of the sources: the initial monitoring
\* state and the default button mapping are taken from the specification.
INITIAL_MONITORING_STATE ==
    [mcbStatus |-> "UNKNOWN", phaseData |-> <<>>, lastSwitchOffTime |-> 0,
     lastPollTime |-> 0]
DEFAULT_FLIC_CONFIG ==
    [click |-> "toggle", doubleClick |-> "off", hold |-> "on"]

INITIAL_VENTILATOR_STATE ==
    [status |-> <<>>, delayedOffEndTime |-> <<>>, keepAliveActive |-> FALSE,
     lastUpdate |-> <<>>]

\* defaults of VENTILATOR_DELAY_OFF_MINUTES and VENTILATOR_KEEP_ALIVE_MINUTES
DELAY_OFF_MINUTES == 60
KEEP_ALIVE_MINUTES == 25

\* The mqtt/schema.ts that declares the phase accumulator is not part of the
\* sources either: three nullable fields and a last-update instant.
INITIAL_PHASE_ACCUMULATOR ==
    [l1_a |-> <<>>, l2_a |-> <<>>, l3_a |-> <<>>, lastUpdate |-> 0]

\* ------------------------------------------------------------------------
\* Bounds of the model
\* ------------------------------------------------------------------------
MaxTasks == 2          \* handlers suspended at an await at the same time
MaxNotifs == 2         \* notification sends in flight at the same time
MaxTicks == 2          \* polling intervals of Spec
MaxNotifTicks == 5     \* clock steps of SpecNotif
MaxTestTicks == 1      \* clock steps of SpecNotifTest
MaxSafetyCalls == 2    \* recorded safety turnOff calls
MaxPublishes == 3      \* counted mcb_status events
MaxMqttTicks == 2      \* clock steps of SpecMqtt
MaxVentCalls == 3      \* calls of handleMcbOn / handleMcbOff
MaxVentSteps == 4      \* horizon of SpecVent in keep-alive intervals
MaxCommandTicks == 1   \* polling intervals of SpecCommand
MaxCommandPublishes == 2 \* counted mcb_status events of SpecCommand
MaxAmpSteps == 3       \* amperages and thresholds of SpecThreshold above the first
MaxSseClients == 2     \* SSE streams created in SpecSse
MaxSsePublishes == 3   \* events broadcast in SpecSse
MaxSlowClients == 1    \* SSE streams created in SpecSseSlow
MaxSlowPublishes == 20 \* events broadcast in SpecSseSlow
MaxRaceCalls == 2      \* calls of handleMcbOn / handleMcbOff in SpecVentRace
MaxLifeCalls == 4      \* calls of startMonitoringLoop / stopMonitoringLoop
MaxLifeVentCalls == 1  \* ventilator calls in SpecLifecycle
MaxLifeClients == 1    \* SSE streams created in SpecLifecycle

\* Date.now() is epoch time: at start it is beyond every cooldown.
StartTime == COOLDOWN_DURATIONS.temperature
NotifTickMs == COOLDOWN_DURATIONS.safetyShutdown

Amps == {AMPERAGE_THRESHOLD, AMPERAGE_THRESHOLD + 1}
Readings == {r \in [l1 : Amps, l2 : Amps, l3 : Amps] :
                Cardinality({p \in {"l1", "l2", "l3"} :
                                 r[p] > AMPERAGE_THRESHOLD}) <= 1}
Temperatures == {TemperatureAlertCelsius - 1, TemperatureAlertCelsius}
FlicActions == {"click", "double_click", "hold", "unknown"}
Kinds == {"safetyShutdown", "temperature"}

VARIABLES
    mcbStatus,          \* monitoring state.mcbStatus
    lastSwitchOffTime,  \* monitoring state.lastSwitchOffTime
    phaseData,          \* monitoring state.phaseData (<<>> is null)
    lastPollTime,       \* monitoring state.lastPollTime
    safetyEnabled,      \* config.ENABLE_SAFETY_SHUTDOWN
    connectionState,    \* mcb-local state.connectionState
    lastStatus,         \* mcb-local state.lastStatus: "null", "on" or "off"
    deviceOn,           \* the breaker itself
    now,                \* Date.now()
    tasks,              \* bag of the handlers suspended at an await
    cooldownState,      \* notifications cooldownState
    notifs,             \* bag of the sendWhatsAppMessage calls in flight
    lastTemperature,    \* last temperature reading handled (<<>> is null)
    safetyOffCalls,     \* history: instants of the safety path's turnOff calls
    mcbPublishCount,    \* history: number of mcb_status events broadcast
    lastPublished,      \* history: status of the last mcb_status event
    lastSent,           \* history: instant of the last successful send per kind
    lastPeripherals     \* history: the ventilator and floor-heating handlers
                        \* called in the step of the last mcb_status event

\* The rate limiter taken alone (SpecLimiter)
VARIABLES
    limState,           \* a CooldownState handed from call to call
    limNow,             \* the instant of the latest call
    limMarked,          \* history: instant of the last update per kind (<<>> none)
    limAnswer           \* history: the last query and its answer (<<>> none)

limiterVars == <<limState, limNow, limMarked, limAnswer>>

\* The MQTT client and its phase accumulator (SpecMqtt)
VARIABLES
    mqttClient,         \* mqttClient: "null" or "client"
    mqttConnected,      \* the client is connected to the broker
    phaseAccumulator,   \* sensorState.phaseAccumulator (<<>> is null)
    sensorPhase,        \* sensorState.phase (<<>> is null)
    mqttNow,            \* Date.now() of handleMessage
    seenSinceConnect,   \* history: fields received on the current connection
    phaseIn,            \* history: the last phase value handled (<<>> none)
    phaseOut            \* history: what that handling gave to onPhase (<<>> nothing)

mqttVars == <<mqttClient, mqttConnected, phaseAccumulator, sensorPhase, mqttNow,
              seenSinceConnect, phaseIn, phaseOut>>

\* The ventilator service (SpecVent)
VARIABLES
    ventilatorState,    \* ventilatorState
    delayedOffTimer,    \* delayedOffTimer: <<>> (null) or <<id>> of a timeout
    keepAliveTimer,     \* keepAliveTimer: <<>> (null) or <<next due instant>>
    armedTimers,        \* the timeouts of setTimeout that can still fire
    ventTasks,          \* bag of calls and callbacks suspended at an await
    relay,              \* the output of the Shelly relay
    ventNow,            \* Date.now() of the ventilator service
    ventCalls,          \* number of handleMcbOn / handleMcbOff calls so far
    ventHistory         \* history: deadlines set, deadlines cancelled, the OFF
                        \* commands of the delayed-off callback per deadline,
                        \* and whether a delayed-off callback has finished
                        \* with no handleMcbOn call in progress or since

ventilatorVars == <<ventilatorState, delayedOffTimer, keepAliveTimer, armedTimers,
                    ventTasks, relay, ventNow, ventCalls, ventHistory>>

\* The HTTP command routes (SpecCommand)
VARIABLES
    httpTasks,          \* bag of route handlers suspended at their await
    httpResponse        \* history: the last response of a command route

commandVars == <<httpTasks, httpResponse>>

\* checkThresholds taken alone (SpecThreshold)
VARIABLES
    thresholdCall       \* history: arguments and result of the last call

thresholdVars == <<thresholdCall>>

\* The SSE broadcaster (SpecSse, SpecSseSlow)
VARIABLES
    clients,            \* the array of SseClient: [id, connected]
    nextClientId,
    streams,            \* per client id: the ReadableStream of its response:
                        \* [state, queue]
    received,           \* history, per client id: the events the subscriber read
    subscribedAt,       \* history, per client id: events broadcast before it
                        \* subscribed
    ssePublished        \* history: number of events broadcast

sseVars == <<clients, nextClientId, streams, received, subscribedAt,
             ssePublished>>

\* The monitoring loop's life cycle (SpecLifecycle)
VARIABLES
    isRunning,          \* monitoring state.isRunning
    stopRequested,      \* stopRequested
    loopPc,             \* where the body of startMonitoringLoop is: "none",
                        \* "connectMcb", "connectFloor" (its awaits) or "sleep"
    openAdapters,       \* the adapters that hold a connection
    lifeCalls,          \* history: the start / stop calls so far, in order
    polledAfterStop     \* history: pollCycle ran after the last call was a stop

lifecycleVars == <<isRunning, stopRequested, loopPc, openAdapters, lifeCalls,
                   polledAfterStop>>

\* The floor heating (SpecFloor)
VARIABLES
    floorTasks,         \* bag of setFloorHeatingOn / setFloorHeatingOff calls
                        \* suspended at an await: [target, pc]
    floorTarget,        \* the target of the last device.set({dps: 16})
                        \* (<<>> none)
    floorFailed         \* history: a call has returned an error

floorVars == <<floorTasks, floorTarget, floorFailed>>

\* The sensor_data events of handlePhaseUpdate
VARIABLES
    lastSensorData      \* history: the phases of the last sensor_data event
                        \* (<<>> none)

componentVars == <<limiterVars, mqttVars, ventilatorVars, commandVars,
                   thresholdVars, sseVars, lifecycleVars, lastSensorData,
                   floorVars>>

vars == <<mcbStatus, lastSwitchOffTime, phaseData, lastPollTime, safetyEnabled,
          connectionState, lastStatus, deviceOn, now, tasks, cooldownState,
          notifs, lastTemperature, safetyOffCalls, mcbPublishCount,
          lastPublished, lastSent, lastPeripherals, componentVars>>

supervisorVars == <<mcbStatus, lastSwitchOffTime, phaseData, lastPollTime,
                    connectionState, lastStatus, deviceOn, tasks,
                    safetyOffCalls, mcbPublishCount, lastPublished,
                    lastPeripherals>>

monitoringVars == <<supervisorVars, safetyEnabled, now, cooldownState, notifs,
                    lastTemperature, lastSent>>

\* what the actions of one component leave alone
outsideLimiter == <<monitoringVars, mqttVars, ventilatorVars, commandVars,
                   thresholdVars, sseVars, lifecycleVars, lastSensorData,
    floorVars>>
outsideMqtt == <<monitoringVars, limiterVars, ventilatorVars, commandVars,
                thresholdVars, sseVars, lifecycleVars, lastSensorData,
    floorVars>>
outsideVentilator == <<monitoringVars, limiterVars, mqttVars, commandVars,
                      thresholdVars, sseVars, lifecycleVars, lastSensorData,
    floorVars>>
outsideCommand == <<limiterVars, mqttVars, ventilatorVars, thresholdVars,
                   sseVars, lifecycleVars, lastSensorData,
    floorVars>>
outsideThreshold == <<monitoringVars, limiterVars, mqttVars, ventilatorVars,
                     commandVars, sseVars, lifecycleVars, lastSensorData,
    floorVars>>
outsideSse == <<monitoringVars, limiterVars, mqttVars, ventilatorVars,
               commandVars, thresholdVars, lifecycleVars, lastSensorData,
    floorVars>>
outsideLifecycle == <<monitoringVars, limiterVars, mqttVars, ventilatorVars,
                     commandVars, thresholdVars, sseVars, lastSensorData,
    floorVars>>

\* A suspended handler is a record [kind, pc, target, waitStart]: the caller
\* ("safety" or "flic"), the await it is suspended at ("set", "wait", "vent",
\* "floor"), the commanded position and the start of waitForStatus.
\* A send in flight is a record [kind, tnow]: the notification kind and the
\* `now` its caller captured before the await.
Suspend(bag, rec) == bag (+) SetToBag({rec})
Resume(bag, rec) == bag (-) SetToBag({rec})

\* ------------------------------------------------------------------------
\* Pure functions
\* ------------------------------------------------------------------------
\* checkThresholds without the test of the third phase
checkThresholds_SkipsL3(data, threshold) ==
    (IF data.l1 > threshold THEN <<[phase |-> "L1", amperage |-> data.l1]>>
                            ELSE <<>>) \o
    (IF data.l2 > threshold THEN <<[phase |-> "L2", amperage |-> data.l2]>>
                            ELSE <<>>)

\* smart-meter/transform.ts checkThresholds: the offenders in order L1,L2,L3
\* a check that also reports a phase at the threshold
checkThresholds_AtLeast(data, threshold) ==
    (IF data.l1 >= threshold THEN <<[phase |-> "L1", amperage |-> data.l1]>>
                             ELSE <<>>) \o
    (IF data.l2 >= threshold THEN <<[phase |-> "L2", amperage |-> data.l2]>>
                             ELSE <<>>) \o
    (IF data.l3 >= threshold THEN <<[phase |-> "L3", amperage |-> data.l3]>>
                             ELSE <<>>)

checkThresholds(data, threshold) ==
    (IF data.l1 > threshold THEN <<[phase |-> "L1", amperage |-> data.l1]>>
                            ELSE <<>>) \o
    (IF data.l2 > threshold THEN <<[phase |-> "L2", amperage |-> data.l2]>>
                            ELSE <<>>) \o
    (IF data.l3 > threshold THEN <<[phase |-> "L3", amperage |-> data.l3]>>
                            ELSE <<>>)

isSafetyShutdownAllowed(state, t) ==
    t - state.safetyShutdown >= COOLDOWN_DURATIONS.safetyShutdown

isTemperatureNotificationAllowed(state, t) ==
    t - state.temperature >= COOLDOWN_DURATIONS.temperature

Max(a, b) == IF a >= b THEN a ELSE b

\* a remaining time that ignores the time already elapsed
getSafetyShutdownCooldownRemaining_Whole(state, t) ==
    Max(0, COOLDOWN_DURATIONS.safetyShutdown)

getSafetyShutdownCooldownRemaining(state, t) ==
    Max(0, COOLDOWN_DURATIONS.safetyShutdown - (t - state.safetyShutdown))

getTemperatureCooldownRemaining(state, t) ==
    Max(0, COOLDOWN_DURATIONS.temperature - (t - state.temperature))

updateSafetyShutdownCooldown(state, t) == [state EXCEPT !.safetyShutdown = t]

updateTemperatureCooldown(state, t) == [state EXCEPT !.temperature = t]

\* const newStatus: McbStatus = data.isOn ? "ON" : "OFF"
McbStatusOf(isOn) == IF isOn = "on" THEN "ON" ELSE "OFF"

\* the isOn value the breaker reports on its data channel
IsOnOf(b) == IF b THEN "on" ELSE "off"


\* ------------------------------------------------------------------------
\* Initial state
\* ------------------------------------------------------------------------
Init ==
    /\ mcbStatus = INITIAL_MONITORING_STATE.mcbStatus
    /\ lastSwitchOffTime = INITIAL_MONITORING_STATE.lastSwitchOffTime
    /\ phaseData = INITIAL_MONITORING_STATE.phaseData
    /\ lastPollTime = INITIAL_MONITORING_STATE.lastPollTime
    /\ safetyEnabled \in BOOLEAN
    /\ connectionState = "disconnected"
    /\ lastStatus = "null"
    /\ deviceOn \in BOOLEAN
    /\ now = StartTime
    /\ tasks = EmptyBag
    /\ cooldownState = INITIAL_COOLDOWN_STATE
    /\ notifs = EmptyBag
    /\ lastTemperature = <<>>
    /\ safetyOffCalls = <<>>
    /\ mcbPublishCount = 0
    /\ lastPublished = <<>>
    /\ lastSent = [k \in Kinds |-> 0]
    /\ limState = INITIAL_COOLDOWN_STATE
    /\ limNow = StartTime
    /\ limMarked = [k \in Kinds |-> <<>>]
    /\ limAnswer = <<>>
    /\ floorTasks = EmptyBag
    /\ floorTarget = <<>>
    /\ floorFailed = FALSE
    /\ lastSensorData = <<>>
    /\ isRunning = FALSE
    /\ stopRequested = FALSE
    /\ loopPc = "none"
    /\ openAdapters = {}
    /\ lifeCalls = <<>>
    /\ polledAfterStop = FALSE
    /\ thresholdCall = <<>>
    /\ clients = <<>>
    /\ nextClientId = 1
    /\ streams = <<>>
    /\ received = <<>>
    /\ subscribedAt = <<>>
    /\ ssePublished = 0
    /\ lastPeripherals = {}
    /\ httpTasks = EmptyBag
    /\ httpResponse = <<>>
    /\ mqttClient = "null"
    /\ mqttConnected = FALSE
    /\ phaseAccumulator = INITIAL_PHASE_ACCUMULATOR
    /\ sensorPhase = <<>>
    /\ mqttNow = StartTime
    /\ seenSinceConnect = {}
    /\ phaseIn = <<>>
    /\ phaseOut = <<>>
    /\ ventilatorState = INITIAL_VENTILATOR_STATE
    /\ delayedOffTimer = <<>>
    /\ keepAliveTimer = <<>>
    /\ armedTimers = {}
    /\ ventTasks = EmptyBag
    /\ relay = FALSE
    /\ ventNow = StartTime
    /\ ventCalls = 0
    /\ ventHistory = [set |-> {}, cancelled |-> {}, off |-> EmptyBag,
                      delayedOffDone |-> FALSE]

\* ------------------------------------------------------------------------
\* Broadcast of an mcb_status event (sse broadcastMcbStatus)
\* ------------------------------------------------------------------------
\* The event goes to every connected client; the history keeps the number
\* of events and the status of the last one (its source tag is not kept).
broadcastMcbStatus(status, source) ==
    /\ mcbPublishCount < MaxPublishes
    /\ mcbPublishCount' = mcbPublishCount + 1
    /\ lastPublished' = <<status>>

\* ------------------------------------------------------------------------
\* monitoring: the handlers of the peripherals, called without await
\* ------------------------------------------------------------------------
PeripheralsOff == {"handleMcbOffVentilator", "handleMcbOffFloorHeating"}
\* an ON that reaches no peripheral
PeripheralsOn_None == {}

PeripheralsOn == {"handleMcbOnFloorHeating"}

\* ------------------------------------------------------------------------
\* mcb-local: turnMcbOnLocal / turnMcbOffLocal up to `await device.set`
\* ------------------------------------------------------------------------
\* The caller (kind) suspends on the command unless the adapter is not
\* connected: then the call returns an error at once and both callers
\* only log it.
turnMcbLocal(kind, targetOn) ==
    IF connectionState # "connected"
    THEN tasks' = tasks
    ELSE /\ BagCardinality(tasks) + BagCardinality(httpTasks) < MaxTasks
         /\ tasks' = Suspend(tasks, [kind |-> kind, pc |-> "set",
                                     target |-> targetOn, waitStart |-> 0])

\* ------------------------------------------------------------------------
\* monitoring: triggerSafetyShutdown up to `await turnMcbOffLocal()`
\* ------------------------------------------------------------------------
\* if (timeSinceLastOff < config.SWITCH_OFF_COOLDOWN_MS) return
InCooldown(t, last) == t - last < SWITCH_OFF_COOLDOWN_MS

\* the shutdown does not commit its cooldown before the call
CommitSwitchOff_Keeps(last, t) == last

\* state = { ...state, lastSwitchOffTime: now }
CommitSwitchOff(last, t) == t

triggerSafetyShutdown ==
    IF InCooldown(now, lastSwitchOffTime)
    THEN UNCHANGED <<lastSwitchOffTime, safetyOffCalls, tasks>>
    ELSE /\ Len(safetyOffCalls) < MaxSafetyCalls
         /\ lastSwitchOffTime' = CommitSwitchOff(lastSwitchOffTime, now)
         /\ safetyOffCalls' = Append(safetyOffCalls, now)
         /\ turnMcbLocal("safety", FALSE)

\* ------------------------------------------------------------------------
\* monitoring: handlePhaseUpdate (onPhase): the state is written, the
\* sensor_data event is broadcast, and the thresholds are checked
\* ------------------------------------------------------------------------
\* a check made whatever the breaker's state
SafetyCheckApplies_AnyStatus(status, enabled) == enabled

SafetyCheckApplies(status, enabled) == status = "ON" /\ enabled

PhaseReading(r) ==
    /\ phaseData' = <<r>>
    /\ IF /\ SafetyCheckApplies(mcbStatus, safetyEnabled)
          /\ Len(checkThresholds(r, AMPERAGE_THRESHOLD)) > 0
       THEN triggerSafetyShutdown
       ELSE UNCHANGED <<lastSwitchOffTime, safetyOffCalls, tasks>>
    /\ UNCHANGED <<mcbStatus, lastPollTime, safetyEnabled, connectionState,
                   lastStatus, deviceOn, now, cooldownState, notifs,
                   lastTemperature, mcbPublishCount, lastPublished, lastSent>>
    /\ lastSensorData' = <<r>>
    /\ UNCHANGED <<lastPeripherals, limiterVars, mqttVars, ventilatorVars,
                   commandVars, thresholdVars, sseVars, lifecycleVars,
                   floorVars>>

\* ------------------------------------------------------------------------
\* monitoring: handleFlicEvent up to `await turnMcbOnLocal/turnMcbOffLocal`
\* ------------------------------------------------------------------------
FlicMcbAction(a) ==
    CASE a = "click" -> DEFAULT_FLIC_CONFIG.click
      [] a = "double_click" -> DEFAULT_FLIC_CONFIG.doubleClick
      [] a = "hold" -> DEFAULT_FLIC_CONFIG.hold
      [] OTHER -> "none"

\* a toggle that always turns on
FlicTargetOn_ToggleTurnsOn(action, status) == action # "off"

FlicTargetOn(action, status) ==
    IF action = "toggle" THEN status # "ON" ELSE action = "on"

FlicEvent(a) ==
    /\ FlicMcbAction(a) # "none"
    /\ turnMcbLocal("flic", FlicTargetOn(FlicMcbAction(a), mcbStatus))
    /\ UNCHANGED <<mcbStatus, lastSwitchOffTime, phaseData, lastPollTime,
                   safetyEnabled, connectionState, lastStatus, deviceOn, now,
                   cooldownState, notifs, lastTemperature, safetyOffCalls,
                   mcbPublishCount, lastPublished, lastSent>>
    /\ UNCHANGED <<lastPeripherals, componentVars>>

\* ------------------------------------------------------------------------
\* mcb-local: handleStatusUpdate, which calls the status callback
\* monitoring: handleMcbLocalUpdate
\* ------------------------------------------------------------------------
handleMcbLocalUpdate(isOn) ==
    IF McbStatusOf(isOn) # mcbStatus
    THEN /\ mcbStatus' = McbStatusOf(isOn)
         /\ broadcastMcbStatus(McbStatusOf(isOn), "mqtt")
         /\ lastPeripherals' =
               IF McbStatusOf(isOn) = "OFF" /\ mcbStatus = "ON"
               THEN PeripheralsOff
               ELSE IF McbStatusOf(isOn) = "ON" /\ mcbStatus = "OFF"
                    THEN PeripheralsOn
                    ELSE {}
    ELSE UNCHANGED <<mcbStatus, mcbPublishCount, lastPublished, lastPeripherals>>

DeviceData ==
    /\ connectionState = "connected"
    /\ lastStatus' = IsOnOf(deviceOn)
    /\ handleMcbLocalUpdate(IsOnOf(deviceOn))
    /\ UNCHANGED <<lastSwitchOffTime, phaseData, lastPollTime, safetyEnabled,
                   connectionState, deviceOn, now, tasks, cooldownState,
                   notifs, lastTemperature, safetyOffCalls, lastSent>>
    /\ UNCHANGED componentVars

\* dev.on("connected") / dev.on("disconnected")
DeviceConnected ==
    /\ connectionState # "connected"
    /\ connectionState' = "connected"
    /\ UNCHANGED <<mcbStatus, lastSwitchOffTime, phaseData, lastPollTime,
                   safetyEnabled, lastStatus, deviceOn, now, tasks,
                   cooldownState, notifs, lastTemperature, safetyOffCalls,
                   mcbPublishCount, lastPublished, lastSent>>
    /\ UNCHANGED <<lastPeripherals, componentVars>>

DeviceDisconnected ==
    /\ connectionState = "connected"
    /\ connectionState' = "disconnected"
    /\ UNCHANGED <<mcbStatus, lastSwitchOffTime, phaseData, lastPollTime,
                   safetyEnabled, lastStatus, deviceOn, now, tasks,
                   cooldownState, notifs, lastTemperature, safetyOffCalls,
                   mcbPublishCount, lastPublished, lastSent>>
    /\ UNCHANGED <<lastPeripherals, componentVars>>

\* The breaker is operated by hand or trips by itself.
DeviceSwitch ==
    /\ deviceOn' = ~deviceOn
    /\ UNCHANGED <<mcbStatus, lastSwitchOffTime, phaseData, lastPollTime,
                   safetyEnabled, connectionState, lastStatus, now, tasks,
                   cooldownState, notifs, lastTemperature, safetyOffCalls,
                   mcbPublishCount, lastPublished, lastSent>>
    /\ UNCHANGED <<lastPeripherals, componentVars>>

\* ------------------------------------------------------------------------
\* mcb-local: turnMcbOnLocal / turnMcbOffLocal after `await device.set`
\* ------------------------------------------------------------------------
\* an error branch that marks the breaker OFF although the command failed
CommandFailed_FlipsMcb(t) ==
    /\ tasks' = Resume(tasks, t)
    /\ mcbStatus' = "OFF"
    /\ UNCHANGED <<lastSwitchOffTime, safetyOffCalls, mcbPublishCount,
                   lastPublished, lastPeripherals>>

\* an error branch that broadcasts the status after the failure
CommandFailed_Publishes(t) ==
    /\ tasks' = Resume(tasks, t)
    /\ broadcastMcbStatus(mcbStatus, "auto_safety")
    /\ UNCHANGED <<mcbStatus, lastSwitchOffTime, safetyOffCalls, lastPeripherals>>

\* The error branch of the two callers: triggerSafetyShutdown logs the
\* failure, handleFlicEvent has no else branch.
CommandFailed(t) ==
    /\ tasks' = Resume(tasks, t)
    /\ UNCHANGED <<mcbStatus, lastSwitchOffTime, safetyOffCalls,
                   mcbPublishCount, lastPublished, lastPeripherals>>

\* handleFlicEvent after a successful command: floor heating on, or
\* ventilator and floor heating off
FlicPeripherals(targetOn) == IF targetOn THEN PeripheralsOn ELSE PeripheralsOff

\* The success branch of the two callers. triggerSafetyShutdown awaits
\* handleMcbOffVentilator and calls the floor heating after it.
CommandSucceeded(t) ==
    IF t.kind = "safety"
    THEN /\ mcbStatus' = "OFF"
         /\ broadcastMcbStatus("OFF", "auto_safety")
         /\ lastPeripherals' = {"handleMcbOffVentilator"}
         /\ tasks' = Suspend(Resume(tasks, t),
                             [t EXCEPT !.pc = "vent", !.waitStart = 0])
         /\ UNCHANGED <<lastSwitchOffTime, safetyOffCalls>>
    ELSE /\ mcbStatus' = McbStatusOf(IsOnOf(t.target))
         /\ broadcastMcbStatus(McbStatusOf(IsOnOf(t.target)), "flic")
         /\ lastPeripherals' = FlicPeripherals(t.target)
         /\ tasks' = Resume(tasks, t)
         /\ UNCHANGED <<lastSwitchOffTime, safetyOffCalls>>

\* device.set resolves: the breaker has taken the commanded position and
\* waitForStatus starts.
SetResolved(t) ==
    /\ t.pc = "set"
    /\ deviceOn' = t.target
    /\ tasks' = Suspend(Resume(tasks, t),
                        [t EXCEPT !.pc = "wait", !.waitStart = now])
    /\ UNCHANGED <<mcbStatus, lastSwitchOffTime, phaseData, lastPollTime,
                   safetyEnabled, connectionState, lastStatus, now,
                   cooldownState, notifs, lastTemperature, safetyOffCalls,
                   mcbPublishCount, lastPublished, lastSent>>
    /\ UNCHANGED <<lastPeripherals, componentVars>>

\* device.set rejects (catch branch).
SetThrows(t) ==
    /\ t.pc = "set"
    /\ CommandFailed(t)
    /\ UNCHANGED <<phaseData, lastPollTime, safetyEnabled, connectionState,
                   lastStatus, deviceOn, now, cooldownState, notifs,
                   lastTemperature, lastSent>>
    /\ UNCHANGED componentVars

\* waitForStatus: state.lastStatus?.isOn === expectedOn
StatusConfirmed(last, expectedOn) == last = IsOnOf(expectedOn)

WaitConfirmed(t) ==
    /\ t.pc = "wait"
    /\ StatusConfirmed(lastStatus, t.target)
    /\ CommandSucceeded(t)
    /\ UNCHANGED <<phaseData, lastPollTime, safetyEnabled, connectionState,
                   lastStatus, deviceOn, now, cooldownState, notifs,
                   lastTemperature, lastSent>>
    /\ UNCHANGED componentVars

WaitTimeout(t) ==
    /\ t.pc = "wait"
    /\ now - t.waitStart >= ConfirmTimeoutMs
    /\ ~StatusConfirmed(lastStatus, t.target)
    /\ CommandFailed(t)
    /\ UNCHANGED <<phaseData, lastPollTime, safetyEnabled, connectionState,
                   lastStatus, deviceOn, now, cooldownState, notifs,
                   lastTemperature, lastSent>>
    /\ UNCHANGED componentVars

\* ------------------------------------------------------------------------
\* notifications: sendTemperatureNotification / sendSafetyShutdownNotification
\* ------------------------------------------------------------------------
isNotificationAllowed(kind, state, t) ==
    IF kind = "safetyShutdown" THEN isSafetyShutdownAllowed(state, t)
                               ELSE isTemperatureNotificationAllowed(state, t)

updateCooldown(kind, state, t) ==
    IF kind = "safetyShutdown" THEN updateSafetyShutdownCooldown(state, t)
                               ELSE updateTemperatureCooldown(state, t)

\* up to `await sendWhatsAppMessage(message)`
\* a send that does not ask the limiter
sendNotification_Unlimited(kind) ==
    /\ BagCardinality(notifs) < MaxNotifs
    /\ notifs' = Suspend(notifs, [kind |-> kind, tnow |-> now])

sendNotification(kind) ==
    IF ~isNotificationAllowed(kind, cooldownState, now)
    THEN notifs' = notifs
    ELSE /\ BagCardinality(notifs) < MaxNotifs
         /\ notifs' = Suspend(notifs, [kind |-> kind, tnow |-> now])

\* the ledger is written whatever the result of the send
CooldownAfterSend_Always(state, kind, t, isOk) == updateCooldown(kind, state, t)

\* if (result.isOk()) cooldownState = update...Cooldown(cooldownState, now)
CooldownAfterSend(state, kind, t, isOk) ==
    IF isOk THEN updateCooldown(kind, state, t) ELSE state

FetchDone(n, isOk) ==
    /\ cooldownState' = IF n.kind \in Kinds
                        THEN CooldownAfterSend(cooldownState, n.kind, n.tnow, isOk)
                        ELSE cooldownState
    /\ lastSent' = IF isOk /\ n.kind \in Kinds
                   THEN [lastSent EXCEPT ![n.kind] = n.tnow]
                   ELSE lastSent
    /\ notifs' = Resume(notifs, n)
    /\ UNCHANGED <<mcbStatus, lastSwitchOffTime, phaseData, lastPollTime,
                   safetyEnabled, connectionState, lastStatus, deviceOn, now,
                   tasks, lastTemperature, safetyOffCalls, mcbPublishCount,
                   lastPublished>>
    /\ UNCHANGED <<lastPeripherals, componentVars>>

FetchOk(n) == FetchDone(n, TRUE)

FetchFail(n) == FetchDone(n, FALSE)

\* ------------------------------------------------------------------------
\* monitoring: triggerSafetyShutdown after the MCB is off
\* ------------------------------------------------------------------------
\* await handleMcbOffVentilator() returns
VentDone(t) ==
    /\ t.pc = "vent"
    /\ tasks' = Suspend(Resume(tasks, t), [t EXCEPT !.pc = "floor"])
    /\ UNCHANGED <<mcbStatus, lastSwitchOffTime, phaseData, lastPollTime,
                   safetyEnabled, connectionState, lastStatus, deviceOn, now,
                   cooldownState, notifs, lastTemperature, safetyOffCalls,
                   mcbPublishCount, lastPublished, lastSent>>
    /\ UNCHANGED <<lastPeripherals, componentVars>>

\* await handleMcbOffFloorHeating() returns; sendSafetyShutdownNotification
\* is the last statement of the handler.
FloorDone(t) ==
    /\ t.pc = "floor"
    /\ sendNotification("safetyShutdown")
    /\ tasks' = Resume(tasks, t)
    /\ UNCHANGED <<mcbStatus, lastSwitchOffTime, phaseData, lastPollTime,
                   safetyEnabled, connectionState, lastStatus, deviceOn, now,
                   cooldownState, lastTemperature, safetyOffCalls,
                   mcbPublishCount, lastPublished, lastSent>>
    /\ UNCHANGED <<lastPeripherals, componentVars>>

\* ------------------------------------------------------------------------
\* monitoring: the main loop of startMonitoringLoop and pollCycle
\* ------------------------------------------------------------------------
\* The first iteration polls at once; every later one follows
\* `await new Promise((resolve) => setTimeout(resolve, POLLING_INTERVAL_MS))`.
\* This timer is the clock of Spec.
NextPollTime(t, lastPoll) ==
    IF lastPoll = INITIAL_MONITORING_STATE.lastPollTime
    THEN t
    ELSE t + POLLING_INTERVAL_MS

PollCycle ==
    /\ NextPollTime(now, lastPollTime) <= StartTime + MaxTicks * POLLING_INTERVAL_MS
    /\ now' = NextPollTime(now, lastPollTime)
    /\ mcbStatus' = IF lastStatus # "null" /\ McbStatusOf(lastStatus) # mcbStatus
                    THEN McbStatusOf(lastStatus)
                    ELSE mcbStatus
    /\ lastPollTime' = now'
    /\ UNCHANGED <<lastSwitchOffTime, phaseData, safetyEnabled, connectionState,
                   lastStatus, deviceOn, tasks, cooldownState, notifs,
                   lastTemperature, safetyOffCalls, mcbPublishCount,
                   lastPublished, lastSent>>
    /\ UNCHANGED <<lastPeripherals, componentVars>>

\* ------------------------------------------------------------------------
\* monitoring: onTemperature handler, and a caller of
\* sendSafetyShutdownNotification
\* ------------------------------------------------------------------------
TemperatureReading(c) ==
    /\ lastTemperature' = <<c>>
    /\ IF c >= TemperatureAlertCelsius
       THEN sendNotification("temperature")
       ELSE notifs' = notifs
    /\ UNCHANGED <<supervisorVars, safetyEnabled, now, cooldownState, lastSent>>
    /\ UNCHANGED componentVars

SafetyNotificationRequest ==
    /\ sendNotification("safetyShutdown")
    /\ UNCHANGED <<supervisorVars, safetyEnabled, now, cooldownState,
                   lastTemperature, lastSent>>
    /\ UNCHANGED componentVars

\* api/routes.tsx: POST /api/test-waha up to `await sendCustomNotification`,
\* which calls sendWhatsAppMessage without a cooldown check and writes no
\* ledger
TestNotify ==
    /\ BagCardinality(notifs) < MaxNotifs
    /\ notifs' = Suspend(notifs, [kind |-> "custom", tnow |-> now])
    /\ UNCHANGED <<supervisorVars, safetyEnabled, now, cooldownState,
                   lastTemperature, lastSent>>
    /\ UNCHANGED componentVars

\* ------------------------------------------------------------------------
\* Clock
\* ------------------------------------------------------------------------
NotifTick ==
    /\ now < StartTime + MaxNotifTicks * NotifTickMs
    /\ now' = now + NotifTickMs
    /\ UNCHANGED <<supervisorVars, safetyEnabled, cooldownState, notifs,
                   lastTemperature, lastSent>>
    /\ UNCHANGED componentVars

\* ------------------------------------------------------------------------
\* api/routes.tsx: POST /api/mcb/on, /api/mcb/off, /api/flic/toggle,
\* /api/flic/on, /api/flic/off. They command the breaker through the Tuya
\* cloud (mcb service: turnMcbOn / turnMcbOff); the awaits of sendMcbCommand
\* (token, fetch, body) are one suspension here.
\* ------------------------------------------------------------------------
Routes == {"mcb/on", "mcb/off", "flic/toggle", "flic/on", "flic/off"}

RouteTargetOn(route, status) ==
    CASE route \in {"mcb/on", "flic/on"} -> TRUE
      [] route \in {"mcb/off", "flic/off"} -> FALSE
      [] OTHER -> status # "ON"

RouteSource(route) == IF route \in {"mcb/on", "mcb/off"} THEN "command" ELSE "flic"

\* the handler up to `await turnMcbOn()` / `await turnMcbOff()`
RouteRequest(route) ==
    /\ BagCardinality(tasks) + BagCardinality(httpTasks) < MaxTasks
    /\ httpTasks' = Suspend(httpTasks,
           [route |-> route, target |-> RouteTargetOn(route, mcbStatus)])
    /\ UNCHANGED <<httpResponse, monitoringVars, outsideCommand>>

\* the handler after the await: on an error a 500 response with the
\* formatted error; on success the breaker has been switched by the cloud,
\* the status is broadcast and the response is 200. The monitoring state is
\* not written and no peripheral handler is called.
\* an error branch that broadcasts the commanded status
RouteFailed_Broadcasts(t) ==
    /\ broadcastMcbStatus(McbStatusOf(IsOnOf(t.target)), RouteSource(t.route))
    /\ UNCHANGED <<deviceOn, lastPeripherals>>
    /\ httpResponse' = <<[code |-> 500, success |-> FALSE, status |-> "error"]>>

\* result.isErr(): c.json({success: false, message | error: ...}, 500)
RouteFailed(t) ==
    /\ UNCHANGED <<deviceOn, mcbPublishCount, lastPublished, lastPeripherals>>
    /\ httpResponse' = <<[code |-> 500, success |-> FALSE, status |-> "error"]>>

RouteResponds(t, isOk) ==
    /\ BagIn(t, httpTasks)
    /\ httpTasks' = Resume(httpTasks, t)
    /\ IF isOk
       THEN /\ deviceOn' = t.target
            /\ broadcastMcbStatus(McbStatusOf(IsOnOf(t.target)), RouteSource(t.route))
            /\ lastPeripherals' = {}
            /\ httpResponse' = <<[code |-> 200, success |-> TRUE,
                                  status |-> McbStatusOf(IsOnOf(t.target))]>>
       ELSE RouteFailed(t)
    /\ UNCHANGED <<mcbStatus, lastSwitchOffTime, phaseData, lastPollTime,
                   safetyEnabled, connectionState, lastStatus, now, tasks,
                   cooldownState, notifs, lastTemperature, safetyOffCalls,
                   lastSent>>
    /\ UNCHANGED outsideCommand

\* ------------------------------------------------------------------------
\* smart-meter/transform.ts: checkThresholds taken alone, called with any
\* reading and any threshold around AMPERAGE_THRESHOLD. The result is
\* {exceeds: false} when the list of exceeded phases is empty.
\* ------------------------------------------------------------------------
AmpValues == (AMPERAGE_THRESHOLD - 1) .. (AMPERAGE_THRESHOLD - 1 + MaxAmpSteps)

CheckThresholdsCall(data, threshold) ==
    /\ thresholdCall' =
          <<[data |-> data, threshold |-> threshold,
             exceeds |-> Len(checkThresholds(data, threshold)) # 0,
             phases |-> checkThresholds(data, threshold)]>>
    /\ UNCHANGED outsideThreshold

NextThreshold ==
    \E data \in [l1 : AmpValues, l2 : AmpValues, l3 : AmpValues],
       threshold \in AmpValues : CheckThresholdsCall(data, threshold)

SpecThreshold == Init /\ [][NextThreshold]_vars

\* ------------------------------------------------------------------------
\* sse service: createSseStream, broadcast, and the ReadableStream of each
\* response. A stream is "readable" until its consumer cancels it
\* ("closed") or the runtime tears it down ("broken"); controller.enqueue
\* appends to the stream's queue, which has no capacity limit, and throws
\* when the stream is not readable. The k-th broadcast event is
\* [type |-> "mcb_status", n |-> k].
\* ------------------------------------------------------------------------
ConnectedEvent(clientId) == [type |-> "connected", n |-> clientId]

SseEventOf(k) == [type |-> "mcb_status", n |-> k]

\* controller.enqueue that puts the chunk in front of the queue
enqueue_AtFront(stream, data) == [stream EXCEPT !.queue = <<data>> \o @]

\* controller.enqueue(data) on a readable stream
enqueue(stream, data) == [stream EXCEPT !.queue = Append(@, data)]

ClientIds(cs) == {cs[i].id : i \in DOMAIN cs}

\* createSseStream: the start callback runs inside the constructor
createSseStream ==
    /\ clients' = Append(clients, [id |-> nextClientId, connected |-> TRUE])
    /\ streams' = Append(streams,
          enqueue([state |-> "readable", queue |-> <<>>],
                  ConnectedEvent(nextClientId)))
    /\ received' = Append(received, <<>>)
    /\ subscribedAt' = Append(subscribedAt, ssePublished)
    /\ nextClientId' = nextClientId + 1
    /\ UNCHANGED ssePublished
    /\ UNCHANGED outsideSse

\* the consumer cancels the stream: the cancel callback of createSseStream
StreamCancel(id) ==
    /\ id \in DOMAIN streams
    /\ streams[id].state = "readable"
    /\ streams' = [streams EXCEPT ![id] = [state |-> "closed", queue |-> <<>>]]
    /\ LET Others(c) == c.id # id IN
       clients' = SelectSeq(clients, Others)
    /\ UNCHANGED <<nextClientId, received, subscribedAt, ssePublished>>
    /\ UNCHANGED outsideSse

\* the stream stops accepting chunks without its cancel callback having run
StreamBreaks(id) ==
    /\ id \in DOMAIN streams
    /\ streams[id].state = "readable"
    /\ streams' = [streams EXCEPT ![id] = [state |-> "broken", queue |-> <<>>]]
    /\ UNCHANGED <<clients, nextClientId, received, subscribedAt, ssePublished>>
    /\ UNCHANGED outsideSse

\* the consumer reads the next chunk of its stream
StreamRead(id) ==
    /\ id \in DOMAIN streams
    /\ streams[id].state = "readable"
    /\ streams[id].queue # <<>>
    /\ received' = [received EXCEPT ![id] = Append(@, Head(streams[id].queue))]
    /\ streams' = [streams EXCEPT ![id].queue = Tail(@)]
    /\ UNCHANGED <<clients, nextClientId, subscribedAt, ssePublished>>
    /\ UNCHANGED outsideSse

\* a clean-up that keeps the clients marked as disconnected
cleanUp_Keeps(marked, errorCount) == marked

\* broadcast: if (errorCount > 0) clients = clients.filter((c) => c.connected)
cleanUp(marked, errorCount) ==
    LET Connected(c) == c.connected IN
    IF errorCount > 0 THEN SelectSeq(marked, Connected) ELSE marked

\* broadcast(event): enqueue on every connected client; a client whose
\* enqueue throws is marked disconnected
broadcast(event) ==
    LET Connected(c) == c.connected
        connectedClients == SelectSeq(clients, Connected)
        failed == {id \in ClientIds(connectedClients) :
                      streams[id].state # "readable"}
        marked == [i \in DOMAIN clients |->
                     IF clients[i].id \in failed
                     THEN [clients[i] EXCEPT !.connected = FALSE]
                     ELSE clients[i]]
    IN  /\ streams' = [id \in DOMAIN streams |->
                          IF id \in ClientIds(connectedClients) \ failed
                          THEN enqueue(streams[id], event)
                          ELSE streams[id]]
        /\ clients' = IF connectedClients = <<>>
                      THEN clients
                      ELSE cleanUp(marked, Cardinality(failed))
        /\ ssePublished' = ssePublished + 1
        /\ UNCHANGED <<nextClientId, received, subscribedAt>>
        /\ UNCHANGED outsideSse

NextSse ==
    \/ nextClientId <= MaxSseClients /\ createSseStream
    \/ ssePublished < MaxSsePublishes /\ broadcast(SseEventOf(ssePublished + 1))
    \/ \E id \in DOMAIN streams : StreamRead(id)
    \/ \E id \in DOMAIN streams : StreamCancel(id)
    \/ \E id \in DOMAIN streams : StreamBreaks(id)

SpecSse == Init /\ [][NextSse]_vars

NextSseSlow ==
    \/ nextClientId <= MaxSlowClients /\ createSseStream
    \/ ssePublished < MaxSlowPublishes /\ broadcast(SseEventOf(ssePublished + 1))
    \/ \E id \in DOMAIN streams : StreamRead(id)

SpecSseSlow == Init /\ [][NextSseSlow]_vars

\* ------------------------------------------------------------------------
\* monitoring: startMonitoringLoop and stopMonitoringLoop. The body of
\* startMonitoringLoop is cut at `await connectMcbLocal`, at
\* `await connectFloorHeating` (floor heating configured) and at the sleep
\* of its loop; pollCycle has no await of its own. An adapter is in
\* openAdapters while it holds a connection.
\* ------------------------------------------------------------------------
\* startMonitoringLoop up to `await connectMcbLocal`; it returns at once
\* when state.isRunning is set
startMonitoringLoop ==
    /\ Len(lifeCalls) < MaxLifeCalls
    /\ lifeCalls' = Append(lifeCalls, "start")
    /\ IF isRunning
       THEN UNCHANGED <<isRunning, stopRequested, loopPc>>
       ELSE /\ isRunning' = TRUE
            /\ stopRequested' = FALSE
            /\ loopPc' = "connectMcb"
    /\ polledAfterStop' = FALSE
    /\ UNCHANGED openAdapters
    /\ UNCHANGED outsideLifecycle

\* `while (!stopRequested) { await pollCycle(); await sleep }` from its
\* test on: the loop ends and clears isRunning, or polls and sleeps
LoopIteration ==
    IF stopRequested
    THEN /\ isRunning' = FALSE
         /\ loopPc' = "none"
         /\ UNCHANGED polledAfterStop
    ELSE /\ loopPc' = "sleep"
         /\ polledAfterStop' = (lifeCalls # <<>> /\ lifeCalls[Len(lifeCalls)] = "stop")
         /\ UNCHANGED isRunning

\* connectMcbLocal returns, connected or not, and the body goes on to
\* `await connectFloorHeating`
McbLocalConnected(ok) ==
    /\ loopPc = "connectMcb"
    /\ loopPc' = "connectFloor"
    /\ openAdapters' = IF ok THEN openAdapters \cup {"mcbLocal"} ELSE openAdapters
    /\ UNCHANGED <<isRunning, stopRequested, lifeCalls, polledAfterStop>>
    /\ UNCHANGED outsideLifecycle

\* connectFloorHeating returns; initializeMqttClient; the loop is entered
FloorHeatingConnected(ok) ==
    /\ loopPc = "connectFloor"
    /\ openAdapters' = (IF ok THEN openAdapters \cup {"floorHeating"}
                              ELSE openAdapters) \cup {"mqtt"}
    /\ LoopIteration
    /\ UNCHANGED <<stopRequested, lifeCalls>>
    /\ UNCHANGED outsideLifecycle

\* the sleep of the loop ends
LoopWakes ==
    /\ loopPc = "sleep"
    /\ LoopIteration
    /\ UNCHANGED <<stopRequested, openAdapters, lifeCalls>>
    /\ UNCHANGED outsideLifecycle

\* stopMonitoringLoop: disconnectMcbLocal, disconnectFloorHeating,
\* disconnectMqttClient
stopMonitoringLoop ==
    /\ Len(lifeCalls) < MaxLifeCalls
    /\ lifeCalls' = Append(lifeCalls, "stop")
    /\ IF ~isRunning
       THEN UNCHANGED <<stopRequested, openAdapters>>
       ELSE /\ stopRequested' = TRUE
            /\ openAdapters' = {}
    /\ UNCHANGED <<isRunning, loopPc, polledAfterStop>>
    /\ UNCHANGED outsideLifecycle

\* ------------------------------------------------------------------------
\* notifications/transform.ts: the cooldown functions taken alone
\* ------------------------------------------------------------------------
getCooldownRemaining(kind, state, t) ==
    IF kind = "safetyShutdown" THEN getSafetyShutdownCooldownRemaining(state, t)
                               ELSE getTemperatureCooldownRemaining(state, t)

\* the instants at which the functions are called: the start, and one
\* millisecond before, at and after the end of each cooldown
LimiterInstants ==
    {StartTime + d + e : d \in {0, COOLDOWN_DURATIONS.safetyShutdown,
                                 COOLDOWN_DURATIONS.temperature},
                         e \in {-1, 0, 1}} \ {StartTime - 1}

LimiterAdvance(t) ==
    /\ t > limNow
    /\ limNow' = t
    /\ UNCHANGED <<limState, limMarked, limAnswer>>
    /\ UNCHANGED outsideLimiter

\* is...Allowed(state, now) is true and update...Cooldown(state, now) follows
LimiterAllowAndMark(kind) ==
    /\ isNotificationAllowed(kind, limState, limNow)
    /\ limState' = updateCooldown(kind, limState, limNow)
    /\ limMarked' = [limMarked EXCEPT ![kind] = <<limNow>>]
    /\ UNCHANGED <<limNow, limAnswer>>
    /\ UNCHANGED outsideLimiter

\* is...Allowed(state, now) and get...CooldownRemaining(state, now)
LimiterQuery(kind) ==
    /\ limAnswer' = <<[kind |-> kind, at |-> limNow, since |-> limMarked[kind],
                       allowed |-> isNotificationAllowed(kind, limState, limNow),
                       remaining |-> getCooldownRemaining(kind, limState, limNow)]>>
    /\ UNCHANGED <<limState, limNow, limMarked>>
    /\ UNCHANGED outsideLimiter

\* ------------------------------------------------------------------------
\* mqtt/transform.ts: phase topics and the phase accumulator
\* ------------------------------------------------------------------------
\* A topic is the sequence of its levels: it ends with "/l1_a" when its last
\* level is "l1_a".
PhaseTopics == {<<"p1monitor", "phase", f>> : f \in {"l1_a", "l2_a", "l3_a", "l1_v"}}
PhasePayloads == {"0", "12.0", "n/a"}

extractPhaseField(topic) ==
    IF topic[Len(topic)] \in {"l1_a", "l2_a", "l3_a"} THEN topic[Len(topic)]
                                                     ELSE "null"

\* Number.parseFloat of the payload; NaN gives null
parsePhaseValue(payload) ==
    CASE payload = "0" -> <<0>>
      [] payload = "12.0" -> <<12>>
      [] OTHER -> <<>>

\* an update that keeps the value of a field that is set
updatePhaseAccumulator_KeepsValue(accumulator, field, value, t) ==
    [accumulator EXCEPT ![field] = IF @ = <<>> THEN <<value>> ELSE @,
                        !.lastUpdate = t]

updatePhaseAccumulator(accumulator, field, value, t) ==
    [accumulator EXCEPT ![field] = <<value>>, !.lastUpdate = t]

\* a conversion that does not test the third field
accumulatorToPhaseData_SkipsL3(accumulator) ==
    IF accumulator.l1_a = <<>> \/ accumulator.l2_a = <<>>
    THEN <<>>
    ELSE <<[l1 |-> accumulator.l1_a, l2 |-> accumulator.l2_a,
            l3 |-> accumulator.l3_a, lastUpdate |-> accumulator.lastUpdate]>>

\* null (<<>>) if a field is null, else the reading; a component of the
\* reading is the field itself (<<v>>)
accumulatorToPhaseData(accumulator) ==
    IF accumulator.l1_a = <<>> \/ accumulator.l2_a = <<>> \/ accumulator.l3_a = <<>>
    THEN <<>>
    ELSE <<[l1 |-> accumulator.l1_a, l2 |-> accumulator.l2_a,
            l3 |-> accumulator.l3_a, lastUpdate |-> accumulator.lastUpdate]>>

\* ------------------------------------------------------------------------
\* mqtt/service.ts: the client
\* ------------------------------------------------------------------------
initializeMqttClient ==
    /\ mqttClient = "null"
    /\ mqttClient' = "client"
    /\ UNCHANGED <<mqttConnected, phaseAccumulator, sensorPhase, mqttNow,
                   seenSinceConnect, phaseIn, phaseOut>>
    /\ UNCHANGED outsideMqtt

\* client.on("connect"): also every automatic reconnect (reconnectPeriod)
MqttConnect ==
    /\ mqttClient = "client"
    /\ ~mqttConnected
    /\ mqttConnected' = TRUE
    /\ seenSinceConnect' = {}
    /\ phaseIn' = <<>>
    /\ phaseOut' = <<>>
    /\ UNCHANGED <<mqttClient, phaseAccumulator, sensorPhase, mqttNow>>
    /\ UNCHANGED outsideMqtt

\* client.on("close")
MqttClose ==
    /\ mqttConnected
    /\ mqttConnected' = FALSE
    /\ UNCHANGED <<mqttClient, phaseAccumulator, sensorPhase, mqttNow,
                   seenSinceConnect, phaseIn, phaseOut>>
    /\ UNCHANGED outsideMqtt

\* handleMessage, case "phase"
MqttPhaseMessage(topic, payload) ==
    /\ mqttConnected
    /\ LET field == extractPhaseField(topic)
           value == parsePhaseValue(payload)
           updatedAccumulator ==
               updatePhaseAccumulator(phaseAccumulator, field, value[1], mqttNow)
           completeData == accumulatorToPhaseData(updatedAccumulator)
       IN IF field = "null" \/ value = <<>>
          THEN UNCHANGED <<phaseAccumulator, sensorPhase, seenSinceConnect,
                           phaseIn, phaseOut>>
          ELSE /\ phaseAccumulator' = updatedAccumulator
               /\ sensorPhase' = IF completeData # <<>> THEN completeData
                                                        ELSE sensorPhase
               /\ seenSinceConnect' = seenSinceConnect \cup {field}
               /\ phaseIn' = <<[field |-> field, value |-> value[1]]>>
               /\ phaseOut' = completeData
    /\ UNCHANGED <<mqttClient, mqttConnected, mqttNow>>
    /\ UNCHANGED outsideMqtt

disconnectMqttClient ==
    /\ mqttClient = "client"
    /\ mqttClient' = "null"
    /\ mqttConnected' = FALSE
    /\ phaseAccumulator' = INITIAL_PHASE_ACCUMULATOR
    /\ sensorPhase' = <<>>
    /\ UNCHANGED <<mqttNow, seenSinceConnect, phaseIn, phaseOut>>
    /\ UNCHANGED outsideMqtt

MqttTick ==
    /\ mqttNow < StartTime + MaxMqttTicks
    /\ mqttNow' = mqttNow + 1
    /\ UNCHANGED <<mqttClient, mqttConnected, phaseAccumulator, sensorPhase,
                   seenSinceConnect, phaseIn, phaseOut>>
    /\ UNCHANGED outsideMqtt

\* ------------------------------------------------------------------------
\* ventilator/transform.ts
\* ------------------------------------------------------------------------
MinuteMs == 60 * 1000

calculateDelayEndTime(t) == t + DELAY_OFF_MINUTES * MinuteMs

updateVentilatorStatus(state, status, t) ==
    [state EXCEPT !.status = <<status>>, !.lastUpdate = <<t>>]

startDelayedOff(state, endTime) == [state EXCEPT !.delayedOffEndTime = <<endTime>>]

clearDelayedOff(state) == [state EXCEPT !.delayedOffEndTime = <<>>]

startKeepAlive(state) == [state EXCEPT !.keepAliveActive = TRUE]

\* a stop that leaves the flag set
stopKeepAlive_KeepsFlag(state) == state

stopKeepAlive(state) == [state EXCEPT !.keepAliveActive = FALSE]

\* ------------------------------------------------------------------------
\* ventilator/service.ts
\* The service is modelled with a ventilator configuration present
\* (SHELLY_VENTILATOR_IP set); without one every operation returns at once.
\* ------------------------------------------------------------------------
\* A suspended call or callback. id: the timeout a handleMcbOff call arms, or
\* the timeout whose callback this is. cancelled (history): the timer of this
\* callback has been cleared while the callback was running. cooling
\* (history): the timeout fired while both timers were set.
VentTask(op, pc, id) ==
    [op |-> op, pc |-> pc, id |-> id, cancelled |-> FALSE, cooling |-> FALSE]

\* clearTimeout(handle): a timeout that has fired is not affected
clearTimeout(handle) == {t \in armedTimers : <<t.id>> # handle}

\* the history of a clearTimeout(handle) / clearInterval: deadlines cancelled,
\* running callbacks of the cleared timer marked
CancelledDeadlines(handle) ==
    [ventHistory EXCEPT
        !.cancelled = @ \cup {t.deadline : t \in armedTimers \ clearTimeout(handle)}]

MarkCancelled(bag, op, handle) ==
    LET mark(t) == IF t.op = op /\ (op = "tick" \/ <<t.id>> = handle)
                   THEN [t EXCEPT !.cancelled = TRUE]
                   ELSE t
    IN BagOfAll(mark, bag)

\* a relay request whose failure resets the state
controlShellyRelay_FailureResets(state, turnOn, ok) ==
    IF ok THEN updateVentilatorStatus(state, turnOn, ventNow)
          ELSE INITIAL_VENTILATOR_STATE

\* controlShellyRelay after its fetch: the state is updated on success only
controlShellyRelay(state, turnOn, ok) ==
    IF ok THEN updateVentilatorStatus(state, turnOn, ventNow) ELSE state

\* stopKeepAliveTimer, on the state and the suspended callbacks given
stopKeepAliveTimer(state, bag) ==
    /\ keepAliveTimer' = <<>>
    /\ IF keepAliveTimer # <<>>
       THEN /\ ventilatorState' = stopKeepAlive(state)
            /\ ventTasks' = MarkCancelled(bag, "tick", <<>>)
       ELSE /\ ventilatorState' = state
            /\ ventTasks' = bag

\* handleMcbOn up to the await of controlShellyRelay(true)
handleMcbOn ==
    /\ ventCalls < MaxVentCalls
    /\ ventCalls' = ventCalls + 1
    /\ armedTimers' = clearTimeout(delayedOffTimer)
    /\ ventHistory' = [CancelledDeadlines(delayedOffTimer) EXCEPT
                         !.delayedOffDone = FALSE]
    /\ delayedOffTimer' = <<>>
    /\ ventilatorState' = IF delayedOffTimer # <<>>
                          THEN clearDelayedOff(ventilatorState)
                          ELSE ventilatorState
    /\ ventTasks' = Suspend(MarkCancelled(ventTasks, "delayed", delayedOffTimer),
                            VentTask("on", "relay", 0))
    /\ UNCHANGED <<keepAliveTimer, relay, ventNow>>
    /\ UNCHANGED outsideVentilator

\* handleMcbOn after the await
handleMcbOnResumes(ok) ==
    /\ BagIn(VentTask("on", "relay", 0), ventTasks)
    /\ ventTasks' = Resume(ventTasks, VentTask("on", "relay", 0))
    /\ relay' = IF ok THEN TRUE ELSE relay
    /\ IF ok /\ keepAliveTimer = <<>>
       THEN /\ keepAliveTimer' = <<ventNow + KEEP_ALIVE_MINUTES * MinuteMs>>
            /\ ventilatorState' =
                   startKeepAlive(controlShellyRelay(ventilatorState, TRUE, ok))
       ELSE /\ UNCHANGED keepAliveTimer
            /\ ventilatorState' = controlShellyRelay(ventilatorState, TRUE, ok)
    /\ UNCHANGED <<delayedOffTimer, armedTimers, ventNow, ventCalls, ventHistory>>
    /\ UNCHANGED outsideVentilator

\* handleMcbOff up to the await of getShellyStatus: the timeout is cleared,
\* delayedOffEndTime is not
handleMcbOffCall ==
    /\ ventCalls' = ventCalls + 1
    /\ armedTimers' = clearTimeout(delayedOffTimer)
    /\ ventHistory' = CancelledDeadlines(delayedOffTimer)
    /\ delayedOffTimer' = <<>>
    /\ ventTasks' = Suspend(MarkCancelled(ventTasks, "delayed", delayedOffTimer),
                            VentTask("off", "status", ventCalls + 1))
    /\ UNCHANGED <<ventilatorState, keepAliveTimer, relay, ventNow>>

handleMcbOff ==
    /\ ventCalls < MaxVentCalls
    /\ handleMcbOffCall
    /\ UNCHANGED outsideVentilator

\* handleMcbOff after the await: the status is the relay's output, or the
\* request failed
handleMcbOffResumes(t, ok) ==
    /\ BagIn(t, ventTasks)
    /\ t.op = "off"
    /\ LET s1 == IF ok THEN updateVentilatorStatus(ventilatorState, relay, ventNow)
                       ELSE ventilatorState
           endTime == calculateDelayEndTime(ventNow)
       IN IF ok /\ ~relay
          THEN /\ stopKeepAliveTimer(s1, Resume(ventTasks, t))
               /\ UNCHANGED <<delayedOffTimer, armedTimers, ventHistory>>
          ELSE /\ ventilatorState' = startDelayedOff(s1, endTime)
               /\ delayedOffTimer' = <<t.id>>
               /\ armedTimers' = armedTimers \cup {[id |-> t.id, deadline |-> endTime]}
               /\ ventHistory' = [ventHistory EXCEPT !.set = @ \cup {endTime}]
               /\ ventTasks' = Resume(ventTasks, t)
               /\ UNCHANGED keepAliveTimer
    /\ UNCHANGED <<relay, ventNow, ventCalls>>
    /\ UNCHANGED outsideVentilator

\* the callback of the delayed-off timeout up to the await of
\* controlShellyRelay(false)
DelayedOffFires(timer) ==
    /\ timer \in armedTimers
    /\ ventNow >= timer.deadline
    /\ armedTimers' = armedTimers \ {timer}
    /\ ventHistory' = [ventHistory EXCEPT !.off = @ (+) SetToBag({timer.deadline})]
    /\ ventTasks' = Suspend(ventTasks,
           [VentTask("delayed", "relay", timer.id) EXCEPT
               !.cooling = delayedOffTimer = <<timer.id>> /\ keepAliveTimer # <<>>])
    /\ UNCHANGED <<ventilatorState, delayedOffTimer, keepAliveTimer, relay, ventNow,
                   ventCalls>>
    /\ UNCHANGED outsideVentilator

\* the callback after the await
DelayedOffResumes(t, ok) ==
    /\ BagIn(t, ventTasks)
    /\ t.op = "delayed"
    /\ relay' = IF ok THEN FALSE ELSE relay
    /\ delayedOffTimer' = <<>>
    /\ stopKeepAliveTimer(
           clearDelayedOff(controlShellyRelay(ventilatorState, FALSE, ok)),
           Resume(ventTasks, t))
    /\ ventHistory' = [ventHistory EXCEPT !.delayedOffDone =
                          ~BagIn(VentTask("on", "relay", 0), ventTasks)]
    /\ UNCHANGED <<armedTimers, ventNow, ventCalls>>
    /\ UNCHANGED outsideVentilator

\* the callback of setInterval up to the first await of resetKeepAlive
KeepAliveFires ==
    /\ keepAliveTimer # <<>>
    /\ ventNow >= keepAliveTimer[1]
    /\ keepAliveTimer' = <<keepAliveTimer[1] + KEEP_ALIVE_MINUTES * MinuteMs>>
    /\ ventTasks' = Suspend(ventTasks, VentTask("tick", "off", 0))
    /\ UNCHANGED <<ventilatorState, delayedOffTimer, armedTimers, relay, ventNow,
                   ventCalls, ventHistory>>
    /\ UNCHANGED outsideVentilator

\* resetKeepAlive after each of its awaits: relay OFF, the pause, relay ON
resetKeepAliveResumes(t, ok) ==
    /\ BagIn(t, ventTasks)
    /\ t.op = "tick"
    /\ CASE t.pc = "off" ->
              /\ relay' = IF ok THEN FALSE ELSE relay
              /\ ventilatorState' = controlShellyRelay(ventilatorState, FALSE, ok)
              /\ ventTasks' = Suspend(Resume(ventTasks, t), [t EXCEPT !.pc = "pause"])
         [] t.pc = "pause" ->
              /\ ok
              /\ ventTasks' = Suspend(Resume(ventTasks, t), [t EXCEPT !.pc = "on"])
              /\ UNCHANGED <<relay, ventilatorState>>
         [] t.pc = "on" ->
              /\ relay' = IF ok THEN TRUE ELSE relay
              /\ ventilatorState' = controlShellyRelay(ventilatorState, TRUE, ok)
              /\ ventTasks' = Resume(ventTasks, t)
    /\ UNCHANGED <<delayedOffTimer, keepAliveTimer, armedTimers, ventNow, ventCalls,
                   ventHistory>>
    /\ UNCHANGED outsideVentilator

stopDelayedOffTimer ==
    /\ delayedOffTimer # <<>>
    /\ armedTimers' = clearTimeout(delayedOffTimer)
    /\ ventHistory' = CancelledDeadlines(delayedOffTimer)
    /\ ventTasks' = MarkCancelled(ventTasks, "delayed", delayedOffTimer)
    /\ delayedOffTimer' = <<>>
    /\ ventilatorState' = clearDelayedOff(ventilatorState)
    /\ UNCHANGED <<keepAliveTimer, relay, ventNow, ventCalls>>
    /\ UNCHANGED outsideVentilator

clearAllTimers ==
    /\ delayedOffTimer # <<>> \/ keepAliveTimer # <<>>
    /\ armedTimers' = clearTimeout(delayedOffTimer)
    /\ ventHistory' = CancelledDeadlines(delayedOffTimer)
    /\ ventTasks' =
           LET bag == MarkCancelled(ventTasks, "delayed", delayedOffTimer)
           IN IF keepAliveTimer # <<>> THEN MarkCancelled(bag, "tick", <<>>) ELSE bag
    /\ delayedOffTimer' = <<>>
    /\ keepAliveTimer' = <<>>
    /\ ventilatorState' = INITIAL_VENTILATOR_STATE
    /\ UNCHANGED <<relay, ventNow, ventCalls>>
    /\ UNCHANGED outsideVentilator

\* Time passes up to the next instant at which a timer is due, at most one
\* keep-alive interval; a timer that is due fires before time passes again.
\* The instants are minutes apart and every await of the service ends within
\* seconds (timeoutMs of the fetches, 1000 ms of the pause): no call is still
\* suspended when the next instant comes.
VentClock ==
    LET due == {t.deadline : t \in armedTimers}
               \cup {keepAliveTimer[i] : i \in DOMAIN keepAliveTimer}
               \cup {ventNow + KEEP_ALIVE_MINUTES * MinuteMs}
        next == CHOOSE x \in due : \A y \in due : x <= y
    IN /\ ventTasks = EmptyBag
       /\ next > ventNow
       /\ next <= StartTime + MaxVentSteps * KEEP_ALIVE_MINUTES * MinuteMs
       /\ ventNow' = next
       /\ UNCHANGED <<ventilatorState, delayedOffTimer, keepAliveTimer, armedTimers,
                      ventTasks, relay, ventCalls, ventHistory>>
       /\ UNCHANGED outsideVentilator

\* mcb-local dev.on("data") with the monitoring callback
\* handleMcbLocalUpdate and, for ON -> OFF, its call of
\* handleMcbOffVentilator, which runs up to the first await of the
\* ventilator's handleMcbOff. For OFF -> ON no ventilator operation is
\* called.
DeviceDataVentilator ==
    /\ connectionState = "connected"
    /\ lastStatus' = IsOnOf(deviceOn)
    /\ handleMcbLocalUpdate(IsOnOf(deviceOn))
    /\ IF mcbStatus = "ON" /\ ~deviceOn
       THEN handleMcbOffCall
       ELSE UNCHANGED ventilatorVars
    /\ UNCHANGED <<lastSwitchOffTime, phaseData, lastPollTime, safetyEnabled,
                   connectionState, deviceOn, now, tasks, cooldownState,
                   notifs, lastTemperature, safetyOffCalls, lastSent>>
    /\ UNCHANGED <<limiterVars, mqttVars, commandVars, thresholdVars, sseVars,
                   lifecycleVars, lastSensorData, floorVars>>

\* ------------------------------------------------------------------------
\* floor-heating/service.ts with a floor-heating configuration present.
\* setFloorHeatingOn / setFloorHeatingOff: setFloorHeatingMode("MANUAL")
\* (pc "mode": ensureConnected and device.set({dps: 2}); pc "pause": the
\* second it waits), then setFloorHeatingTemp(target) (pc "temp":
\* ensureConnected and device.set({dps: 16}); pc "confirm": waitForTemp,
\* whose outcome changes nothing).
\* ------------------------------------------------------------------------
\* mcb-local dev.on("data") with the monitoring callback
\* handleMcbLocalUpdate and its call of handleMcbOffFloorHeating (ON -> OFF)
\* or handleMcbOnFloorHeating (OFF -> ON), each up to the first await of
\* setFloorHeatingMode
DeviceDataFloor ==
    /\ connectionState = "connected"
    /\ lastStatus' = IsOnOf(deviceOn)
    /\ handleMcbLocalUpdate(IsOnOf(deviceOn))
    /\ floorTasks' =
          IF mcbStatus = "ON" /\ ~deviceOn
          THEN Suspend(floorTasks, [target |-> "targetTempOff", pc |-> "mode"])
          ELSE IF mcbStatus = "OFF" /\ deviceOn
               THEN Suspend(floorTasks, [target |-> "targetTempOn", pc |-> "mode"])
               ELSE floorTasks
    /\ UNCHANGED <<floorTarget, floorFailed>>
    /\ UNCHANGED <<lastSwitchOffTime, phaseData, lastPollTime, safetyEnabled,
                   connectionState, deviceOn, now, tasks, cooldownState,
                   notifs, lastTemperature, safetyOffCalls, lastSent>>
    /\ UNCHANGED <<limiterVars, mqttVars, ventilatorVars, commandVars,
                   thresholdVars, sseVars, lifecycleVars, lastSensorData>>

\* a call goes on after one of its awaits; ok: the await did not fail
FloorHeatingResumes(t, ok) ==
    /\ BagIn(t, floorTasks)
    /\ CASE t.pc = "mode" ->
              /\ floorTasks' = IF ok
                               THEN Suspend(Resume(floorTasks, t), [t EXCEPT !.pc = "pause"])
                               ELSE Resume(floorTasks, t)
              /\ floorFailed' = (floorFailed \/ ~ok)
              /\ UNCHANGED floorTarget
         [] t.pc = "pause" ->
              /\ ok
              /\ floorTasks' = Suspend(Resume(floorTasks, t), [t EXCEPT !.pc = "temp"])
              /\ UNCHANGED <<floorTarget, floorFailed>>
         [] t.pc = "temp" ->
              /\ floorTasks' = IF ok
                               THEN Suspend(Resume(floorTasks, t), [t EXCEPT !.pc = "confirm"])
                               ELSE Resume(floorTasks, t)
              /\ floorTarget' = IF ok THEN <<t.target>> ELSE floorTarget
              /\ floorFailed' = (floorFailed \/ ~ok)
         [] t.pc = "confirm" ->
              /\ ok
              /\ floorTasks' = Resume(floorTasks, t)
              /\ UNCHANGED <<floorTarget, floorFailed>>
    /\ UNCHANGED <<monitoringVars, limiterVars, mqttVars, ventilatorVars,
                   commandVars, thresholdVars, sseVars, lifecycleVars,
                   lastSensorData>>

\* Time passes by the quarter of an hour that lies between the delay of the
\* delayed-off and a multiple of the keep-alive interval; no timer is due
\* before.
VentElapse ==
    LET due == {t.deadline : t \in armedTimers}
               \cup {keepAliveTimer[i] : i \in DOMAIN keepAliveTimer}
        next == ventNow + (3 * KEEP_ALIVE_MINUTES - DELAY_OFF_MINUTES) * MinuteMs
    IN /\ ventTasks = EmptyBag
       /\ \A x \in due : next <= x
       /\ next <= StartTime + MaxVentSteps * KEEP_ALIVE_MINUTES * MinuteMs
       /\ ventNow' = next
       /\ UNCHANGED <<ventilatorState, delayedOffTimer, keepAliveTimer, armedTimers,
                      ventTasks, relay, ventCalls, ventHistory>>
       /\ UNCHANGED outsideVentilator

\* ------------------------------------------------------------------------
\* Specifications
\* ------------------------------------------------------------------------
Next ==
    \/ \E r \in Readings : PhaseReading(r)
    \/ \E a \in FlicActions : FlicEvent(a)
    \/ DeviceData
    \/ DeviceConnected
    \/ DeviceDisconnected
    \/ DeviceSwitch
    \/ \E t \in BagToSet(tasks) : SetResolved(t)
    \/ \E t \in BagToSet(tasks) : SetThrows(t)
    \/ \E t \in BagToSet(tasks) : WaitConfirmed(t)
    \/ \E t \in BagToSet(tasks) : WaitTimeout(t)
    \/ \E t \in BagToSet(tasks) : VentDone(t)
    \/ \E t \in BagToSet(tasks) : FloorDone(t)
    \/ \E n \in BagToSet(notifs) : FetchOk(n)
    \/ \E n \in BagToSet(notifs) : FetchFail(n)
    \/ PollCycle

Spec == Init /\ [][Next]_vars

NextNotif ==
    \/ \E c \in Temperatures : TemperatureReading(c)
    \/ SafetyNotificationRequest
    \/ \E n \in BagToSet(notifs) : FetchOk(n)
    \/ \E n \in BagToSet(notifs) : FetchFail(n)
    \/ NotifTick

SpecNotif == Init /\ [][NextNotif]_vars

NextNotifTest ==
    \/ \E c \in Temperatures : TemperatureReading(c)
    \/ SafetyNotificationRequest
    \/ TestNotify
    \/ \E n \in BagToSet(notifs) : FetchOk(n)
    \/ \E n \in BagToSet(notifs) : FetchFail(n)
    \/ NotifTick /\ now' <= StartTime + MaxTestTicks * NotifTickMs

SpecNotifTest == Init /\ [][NextNotifTest]_vars

NextLimiter ==
    \/ \E t \in LimiterInstants : LimiterAdvance(t)
    \/ \E k \in Kinds : LimiterAllowAndMark(k)
    \/ \E k \in Kinds : LimiterQuery(k)

SpecLimiter == Init /\ [][NextLimiter]_vars

NextMqtt ==
    \/ initializeMqttClient
    \/ MqttConnect
    \/ MqttClose
    \/ \E topic \in PhaseTopics, payload \in PhasePayloads :
          MqttPhaseMessage(topic, payload)
    \/ disconnectMqttClient
    \/ MqttTick

SpecMqtt == Init /\ [][NextMqtt]_vars

NextCommand ==
    \/ \E a \in FlicActions : FlicEvent(a)
    \/ DeviceData /\ mcbPublishCount' <= MaxCommandPublishes
    \/ DeviceConnected
    \/ DeviceDisconnected
    \/ DeviceSwitch
    \/ \E t \in BagToSet(tasks) : SetResolved(t)
    \/ \E t \in BagToSet(tasks) : SetThrows(t)
    \/ \E t \in BagToSet(tasks) :
          WaitConfirmed(t) /\ mcbPublishCount' <= MaxCommandPublishes
    \/ \E t \in BagToSet(tasks) : WaitTimeout(t)
    \/ \E route \in Routes : RouteRequest(route)
    \/ \E t \in BagToSet(httpTasks), isOk \in BOOLEAN :
          RouteResponds(t, isOk) /\ mcbPublishCount' <= MaxCommandPublishes
    \/ PollCycle /\ now' <= StartTime + MaxCommandTicks * POLLING_INTERVAL_MS

SpecCommand == Init /\ [][NextCommand]_vars

\* The ventilator handlers are called by the handlers of MCB updates and of
\* button events, which arrive over the adapters.
NextLifecycle ==
    \/ startMonitoringLoop
    \/ stopMonitoringLoop
    \/ \E ok \in BOOLEAN : McbLocalConnected(ok)
    \/ \E ok \in BOOLEAN : FloorHeatingConnected(ok)
    \/ LoopWakes
    \/ openAdapters # {} /\ handleMcbOn /\ ventCalls' <= MaxLifeVentCalls
    \/ \E ok \in BOOLEAN : handleMcbOnResumes(ok)
    \/ openAdapters # {} /\ handleMcbOff /\ ventCalls' <= MaxLifeVentCalls
    \/ \E t \in BagToSet(ventTasks), ok \in BOOLEAN : handleMcbOffResumes(t, ok)
    \/ nextClientId <= MaxLifeClients /\ createSseStream
    \/ \E id \in DOMAIN streams : StreamCancel(id)

SpecLifecycle == Init /\ [][NextLifecycle]_vars

NextVentRace ==
    \/ handleMcbOn /\ ventCalls' <= MaxRaceCalls
    \/ \E ok \in BOOLEAN : handleMcbOnResumes(ok)
    \/ handleMcbOff /\ ventCalls' <= MaxRaceCalls
    \/ \E t \in BagToSet(ventTasks), ok \in BOOLEAN : handleMcbOffResumes(t, ok)
    \/ \E timer \in armedTimers : DelayedOffFires(timer)
    \/ \E t \in BagToSet(ventTasks), ok \in BOOLEAN : DelayedOffResumes(t, ok)
    \/ KeepAliveFires
    \/ \E t \in BagToSet(ventTasks), ok \in BOOLEAN : resetKeepAliveResumes(t, ok)
    \/ VentClock
    \/ VentElapse

SpecVentRace == Init /\ [][NextVentRace]_vars

NextSaunaVent ==
    \/ DeviceConnected
    \/ DeviceSwitch
    \/ DeviceDataVentilator
    \/ \E t \in BagToSet(ventTasks), ok \in BOOLEAN : handleMcbOffResumes(t, ok)
    \/ \E timer \in armedTimers : DelayedOffFires(timer)
    \/ \E t \in BagToSet(ventTasks), ok \in BOOLEAN : DelayedOffResumes(t, ok)
    \/ VentClock

SpecSaunaVent == Init /\ [][NextSaunaVent]_vars

NextFloor ==
    \/ DeviceConnected
    \/ DeviceSwitch
    \/ DeviceDataFloor
    \/ \E t \in BagToSet(floorTasks), ok \in BOOLEAN : FloorHeatingResumes(t, ok)

SpecFloor == Init /\ [][NextFloor]_vars

NextVent ==
    \/ handleMcbOn
    \/ \E ok \in BOOLEAN : handleMcbOnResumes(ok)
    \/ handleMcbOff
    \/ \E t \in BagToSet(ventTasks), ok \in BOOLEAN : handleMcbOffResumes(t, ok)
    \/ \E timer \in armedTimers : DelayedOffFires(timer)
    \/ \E t \in BagToSet(ventTasks), ok \in BOOLEAN : DelayedOffResumes(t, ok)
    \/ KeepAliveFires
    \/ \E t \in BagToSet(ventTasks), ok \in BOOLEAN : resetKeepAliveResumes(t, ok)
    \/ stopDelayedOffTimer
    \/ clearAllTimers
    \/ VentClock

SpecVent == Init /\ [][NextVent]_vars

TypeOK ==
    /\ mcbStatus \in {"UNKNOWN", "ON", "OFF"}
    /\ lastStatus \in {"null", "on", "off"}
    /\ connectionState \in {"connected", "disconnected"}
    /\ mcbPublishCount \in 0..MaxPublishes
    /\ BagCardinality(tasks) <= MaxTasks
    /\ BagCardinality(notifs) <= MaxNotifs
    /\ \A t \in BagToSet(tasks) :
          /\ t.kind \in {"safety", "flic"}
          /\ t.pc \in {"set", "wait", "vent", "floor"}
    /\ \A n \in BagToSet(notifs) : n.kind \in Kinds \cup {"custom"}
    /\ Len(safetyOffCalls) <= MaxSafetyCalls

\* ========================================================================
\* Properties
\* ========================================================================
Last(seq) == seq[Len(seq)]

AnyPhaseOver(r) ==
    \/ r.l1 > AMPERAGE_THRESHOLD
    \/ r.l2 > AMPERAGE_THRESHOLD
    \/ r.l3 > AMPERAGE_THRESHOLD

\* a step that handles a phase reading different from the previous one
PhaseStep == phaseData' # phaseData

\* a step in which the safety path calls turnMcbOffLocal()
SafetyOffIssued == Len(safetyOffCalls') = Len(safetyOffCalls) + 1

\* safety shutdowns whose turnMcbOffLocal() has not returned yet
SafetyOffInFlight ==
    {t \in BagToSet(tasks) : t.kind = "safety" /\ t.pc \in {"set", "wait"}}

\* their number
SafetyOffInFlightCount ==
    BagCardinality([t \in SafetyOffInFlight |-> tasks[t]])

\* a step in which the awaited turnMcbOffLocal() of safety shutdown t
\* returns an error
SafetyOffFailedStep(t) ==
    /\ t \in SafetyOffInFlight
    /\ tasks' = Resume(tasks, t)

\* a step in which turnMcbOffLocal() of the safety path fails at once
\* (adapter not connected)
SafetyOffRefusedStep == SafetyOffIssued /\ tasks' = tasks

\* ------------------------------------------------------------------------
\* C1 (as stated): a reading with a phase over the threshold that arrives
\* while mcb is ON makes the supervisor call turnOff within the handling of
\* the reading, unless now - lastSwitchOffTime < cooldown.
C1_EveryOverReadingTripsOrCooldown ==
    [][(PhaseStep /\ mcbStatus = "ON" /\ AnyPhaseOver(phaseData'[1]))
         => (SafetyOffIssued \/ now - lastSwitchOffTime < SWITCH_OFF_COOLDOWN_MS)]_vars

\* C1 (amended): the same, for a supervisor whose safety feature
\* (ENABLE_SAFETY_SHUTDOWN) is enabled.
C1_EnabledOverReadingTripsOrCooldown ==
    [][(PhaseStep /\ mcbStatus = "ON" /\ safetyEnabled
          /\ AnyPhaseOver(phaseData'[1]))
         => (SafetyOffIssued \/ now - lastSwitchOffTime < SWITCH_OFF_COOLDOWN_MS)]_vars

\* an over-threshold reading has just made the safety path issue turnOff
C1_Witness ==
    /\ mcbStatus = "ON"
    /\ safetyEnabled
    /\ phaseData # <<>>
    /\ AnyPhaseOver(phaseData[1])
    /\ safetyOffCalls # <<>>
    /\ Last(safetyOffCalls) = now
    /\ SafetyOffInFlight # {}

\* ------------------------------------------------------------------------
\* C2: any two turnOff calls of the safety path are at least
\* SWITCH_OFF_COOLDOWN_MS apart.
C2_SafetyCallsCooldownApart ==
    \A i, j \in 1..Len(safetyOffCalls) :
        i < j => safetyOffCalls[j] - safetyOffCalls[i] >= SWITCH_OFF_COOLDOWN_MS

\* the safety path has called turnOff twice
C2_Witness == Len(safetyOffCalls) >= 2

\* ------------------------------------------------------------------------
\* C3: at most one turnOff call of the safety path is in flight.
C3_AtMostOneSafetyOffInFlight == SafetyOffInFlightCount <= 1

\* ------------------------------------------------------------------------
\* C4: while a handler awaits an adapter call, no other event is handled:
\* no further handler is started, and the supervisor state changes only in
\* a step of an awaiting handler.
Awaiting == BagCardinality(tasks)

C4_NoEventHandledWhileAwaiting ==
    [][Awaiting > 0 =>
          /\ Awaiting' <= Awaiting
          /\ tasks' = tasks
                => UNCHANGED <<mcbStatus, lastSwitchOffTime, phaseData>>]_vars

\* ------------------------------------------------------------------------
\* C5: when turnOff fails during a safety shutdown, mcb is not changed, the
\* cooldown of the attempt stays committed (lastSwitchOffTime is still the
\* instant of the latest attempt) and no further turnOff is issued.
C5_FailedSafetyOffKeepsState ==
    [][/\ \A t \in SafetyOffInFlight :
             SafetyOffFailedStep(t) =>
                /\ mcbStatus' = mcbStatus
                /\ lastSwitchOffTime' = lastSwitchOffTime
                /\ lastSwitchOffTime' = Last(safetyOffCalls)
                /\ safetyOffCalls' = safetyOffCalls
                /\ SafetyOffInFlightCount' = SafetyOffInFlightCount - 1
       /\ SafetyOffRefusedStep =>
                /\ mcbStatus' = mcbStatus
                /\ lastSwitchOffTime' = now]_vars

\* a safety shutdown has failed: one attempt, nothing in flight, mcb still
\* ON and nothing published since the breaker was first seen ON
C5_Witness ==
    /\ Len(safetyOffCalls) = 1
    /\ Awaiting = 0
    /\ mcbStatus = "ON"
    /\ mcbPublishCount = 1
    /\ lastSwitchOffTime = safetyOffCalls[1]

C7_OnePublishPerMcbChange ==
    [][(mcbStatus' # mcbStatus) <=> (mcbPublishCount' = mcbPublishCount + 1)]_vars

\* ------------------------------------------------------------------------
\* C8: two successful notifications of the same kind are at least the
\* cooldown of the kind apart: a successful send recorded at a new instant
\* is that far from the instant of the previous successful send.
C8_SentCooldownApart ==
    [][\A k \in Kinds :
          (lastSent[k] # 0 /\ lastSent'[k] # lastSent[k]) =>
             lastSent'[k] - lastSent[k] >= COOLDOWN_DURATIONS[k]]_vars

\* ------------------------------------------------------------------------
\* C9: the ledger entry of a kind is written only in a step that completes
\* a successful send of that kind, with the instant of that send; a denied
\* or a failed attempt leaves the ledger as it is.
C9_LedgerWrittenOnlyOnSuccess ==
    [][\A k \in Kinds :
          cooldownState'[k] # cooldownState[k] =>
             /\ lastSent'[k] = cooldownState'[k]
             /\ \E n \in BagToSet(notifs) : /\ n.kind = k
                                              /\ n.tnow = cooldownState'[k]
                                              /\ notifs' = Resume(notifs, n)]_vars

\* a temperature alert was allowed and its send failed: nothing is in
\* flight, nothing was sent, and the ledger is untouched
C9_Witness ==
    /\ lastTemperature = <<TemperatureAlertCelsius>>
    /\ notifs = EmptyBag
    /\ lastSent["temperature"] = 0
    /\ cooldownState = INITIAL_COOLDOWN_STATE

\* ------------------------------------------------------------------------
\* C10: no write replaces a ledger entry by an earlier instant.
C10_LedgerMonotone ==
    [][\A k \in Kinds : cooldownState'[k] >= cooldownState[k]]_vars

\* ------------------------------------------------------------------------
\* C11: after an allowed call at t followed at once by the update of the
\* ledger with t, a query of the same kind at t' >= t is denied with the
\* remaining time cooldown - (t' - t) while t' < t + cooldown, and is
\* allowed from t + cooldown on.
C11_DeniedWithExactRemainingUntilCooldown ==
    \A i \in 1..Len(limAnswer) :
        LET a == limAnswer[i]
            cooldown == COOLDOWN_DURATIONS[a.kind]
        IN a.since # <<>> =>
             /\ a.at < a.since[1] + cooldown =>
                    /\ ~a.allowed
                    /\ a.remaining = cooldown - (a.at - a.since[1])
             /\ a.at >= a.since[1] + cooldown => a.allowed

\* a query one millisecond before the end of the cooldown was denied with
\* one millisecond remaining
C11_Witness ==
    /\ limAnswer # <<>>
    /\ limAnswer[1].since # <<>>
    /\ limAnswer[1].at = limAnswer[1].since[1] + COOLDOWN_DURATIONS[limAnswer[1].kind] - 1
    /\ ~limAnswer[1].allowed
    /\ limAnswer[1].remaining = 1

\* ------------------------------------------------------------------------
\* C12: a reading handed to onPhase, and the last phase data, have all
\* three components set (0 is a set value): nothing is emitted while a field
\* of the accumulator is null.
PhaseComplete(r) == r.l1 # <<>> /\ r.l2 # <<>> /\ r.l3 # <<>>

C12_EmittedReadingsComplete ==
    /\ phaseOut # <<>> => PhaseComplete(phaseOut[1])
    /\ sensorPhase # <<>> => PhaseComplete(sensorPhase[1])

\* a reading with a component 0 has been handed to onPhase, after a value
\* that completed nothing
C12_Witness ==
    /\ phaseOut # <<>>
    /\ phaseOut[1].l1 = <<0>>
    /\ phaseOut[1].l3 = <<12>>
    /\ sensorPhase = phaseOut

\* ------------------------------------------------------------------------
\* C13: a phase value received gives the supervisor a reading if and only
\* if all of l1, l2, l3 have been received on the current connection.
C13_ReadingIffAllSeenSinceConnect ==
    phaseIn # <<>> =>
        (phaseOut # <<>> <=> seenSinceConnect = {"l1_a", "l2_a", "l3_a"})

\* ------------------------------------------------------------------------
\* C14: while delayedOffEndTime is set, the timeout that delayedOffTimer
\* refers to is armed for that deadline (or has fired and its callback, which
\* commands the relay OFF and clears the field, is running); in particular
\* no step clears the timeout and leaves the field set.
C14_DeadlineHasArmedTimer ==
    ventilatorState.delayedOffEndTime # <<>> =>
        /\ delayedOffTimer # <<>>
        /\ \/ \E t \in armedTimers :
                 /\ <<t.id>> = delayedOffTimer
                 /\ <<t.deadline>> = ventilatorState.delayedOffEndTime
           \/ \E t \in BagToSet(ventTasks) :
                 t.op = "delayed" /\ <<t.id>> = delayedOffTimer

\* ------------------------------------------------------------------------
\* C15: keepAliveActive is true exactly when the keep-alive interval is
\* alive: no step sets or clears one of the two without the other.
C15_KeepAliveFlagIffTimer ==
    ventilatorState.keepAliveActive <=> keepAliveTimer # <<>>

\* the keep-alive has been stopped while one of its cycles was running
C15_Witness ==
    /\ keepAliveTimer = <<>>
    /\ ~ventilatorState.keepAliveActive
    /\ \E t \in BagToSet(ventTasks) : t.op = "tick" /\ t.cancelled

\* ------------------------------------------------------------------------
\* C16: for every deadline d ever set: it has been cancelled and no
\* delayed-off callback has commanded the relay OFF for it; or the relay
\* is commanded OFF for it at most once, and exactly once when d has passed.
C16_OffExactlyOncePerDeadline ==
    \A d \in ventHistory.set :
        \/ d \in ventHistory.cancelled /\ CopiesIn(d, ventHistory.off) = 0
        \/ /\ CopiesIn(d, ventHistory.off) <= 1
           /\ ventNow > d => CopiesIn(d, ventHistory.off) = 1

\* ------------------------------------------------------------------------
\* C17: the service is Idle (no timer), Running (keep-alive only) or Cooling
\* (both timers): a delayed-off timeout is never pending without the
\* keep-alive, so handleMcbOff with no timer set arms none.
C17_IdleRunningOrCooling ==
    delayedOffTimer # <<>> => keepAliveTimer # <<>>

\* ------------------------------------------------------------------------
\* C18: when a handleMcbOn call returns, no delayed-off is pending (no
\* timeout, delayedOffEndTime null) and the keep-alive is running.
C18_AfterMcbOnRunning ==
    [][(\E ok \in BOOLEAN : handleMcbOnResumes(ok)) =>
          /\ delayedOffTimer' = <<>>
          /\ ventilatorState'.delayedOffEndTime = <<>>
          /\ keepAliveTimer' # <<>>
          /\ ventilatorState'.keepAliveActive]_vars

\* ------------------------------------------------------------------------
\* C19: when the callback of a delayed-off timeout that fired in Cooling has
\* finished (relay commanded OFF before its await, keep-alive stopped after
\* it), the service is Idle: no timer of either kind, delayedOffEndTime null,
\* keepAliveActive false.
VentIdle ==
    /\ delayedOffTimer = <<>>
    /\ armedTimers = {}
    /\ keepAliveTimer = <<>>
    /\ ventilatorState.delayedOffEndTime = <<>>
    /\ ~ventilatorState.keepAliveActive

C19_DelayedOffEndsIdle ==
    [][\A t \in BagToSet(ventTasks) :
          (t.cooling /\ \E ok \in BOOLEAN : DelayedOffResumes(t, ok)) =>
              VentIdle']_vars

\* ------------------------------------------------------------------------
\* C20: the callback of a timer that has been cleared does nothing more: it
\* commands the relay no more and changes the ventilator state no more, also
\* when it was already running when the timer was cleared.
C20_ClearedTimerHasNoEffect ==
    [][\A t \in BagToSet(ventTasks) :
          (/\ t.cancelled
           /\ \E ok \in BOOLEAN :
                 DelayedOffResumes(t, ok) \/ resetKeepAliveResumes(t, ok)) =>
              /\ t.pc # "pause"
              /\ ventilatorState' = ventilatorState
              /\ relay' = relay]_vars

\* ------------------------------------------------------------------------
\* C21: a relay request that fails during a keep-alive cycle changes neither
\* timer, nor keepAliveActive, nor delayedOffEndTime, and the cycle goes on
\* to its next request: after a failed OFF it pauses and then requests ON.
C21_FailedCycleCallChangesNothing ==
    [][\A t \in BagToSet(ventTasks) :
          resetKeepAliveResumes(t, FALSE) =>
              /\ delayedOffTimer' = delayedOffTimer
              /\ keepAliveTimer' = keepAliveTimer
              /\ armedTimers' = armedTimers
              /\ ventilatorState' = ventilatorState
              /\ t.pc = "off" => BagIn([t EXCEPT !.pc = "pause"], ventTasks')]_vars

\* the first cycle of a keep-alive is about to request ON although its OFF
\* request failed: the relay is still on
C21_Witness ==
    /\ ventCalls = 1
    /\ ventNow = StartTime + KEEP_ALIVE_MINUTES * MinuteMs
    /\ relay
    /\ keepAliveTimer # <<>>
    /\ \E t \in BagToSet(ventTasks) : t.op = "tick" /\ t.pc = "on"

\* ------------------------------------------------------------------------
\* C22: when the device reports the status s: if s is the current mcb, the
\* state is unchanged, nothing is published and no peripheral handler is
\* called; on ON -> OFF the ventilator's and the floor heating's OFF handlers
\* are called; on OFF -> ON the floor heating's ON handler is called; in all
\* cases mcb is s afterwards.
C22_McbObservedUpdatesAndTriggers ==
    [][DeviceData =>
          LET s == McbStatusOf(IsOnOf(deviceOn)) IN
          /\ mcbStatus' = s
          /\ s = mcbStatus =>
                UNCHANGED <<mcbStatus, mcbPublishCount, lastPublished,
                            lastPeripherals, tasks, httpTasks>>
          /\ (mcbStatus = "ON" /\ s = "OFF") =>
                /\ mcbPublishCount' = mcbPublishCount + 1
                /\ lastPeripherals' =
                     {"handleMcbOffVentilator", "handleMcbOffFloorHeating"}
          /\ (mcbStatus = "OFF" /\ s = "ON") =>
                /\ mcbPublishCount' = mcbPublishCount + 1
                /\ lastPeripherals' = {"handleMcbOnFloorHeating"}]_vars

\* the breaker was reported ON, then switched off, and the device has just
\* reported OFF while the button command that switched it still waits for
\* its confirmation: the second event is the one of the report
C22_Witness ==
    /\ mcbStatus = "OFF"
    /\ lastStatus = "off"
    /\ mcbPublishCount = 2
    /\ lastPeripherals = {"handleMcbOffVentilator", "handleMcbOffFloorHeating"}
    /\ \E t \in BagToSet(tasks) : t.kind = "flic" /\ t.pc = "wait" /\ ~t.target
    /\ httpTasks = EmptyBag
    /\ httpResponse = <<>>

\* ------------------------------------------------------------------------
\* C23: a successful operator command sets mcb to the commanded value,
\* publishes, and calls the peripheral handlers of that value: the
\* ventilator's and the floor heating's OFF handlers for OFF, the floor
\* heating's ON handler for ON.
CommandEffects(targetOn) ==
    /\ mcbStatus' = McbStatusOf(IsOnOf(targetOn))
    /\ mcbPublishCount' = mcbPublishCount + 1
    /\ lastPublished' = <<McbStatusOf(IsOnOf(targetOn))>>
    /\ lastPeripherals' =
          IF targetOn THEN {"handleMcbOnFloorHeating"}
                      ELSE {"handleMcbOffVentilator", "handleMcbOffFloorHeating"}

C23_SuccessfulCommandUpdatesAndTriggers ==
    [][/\ \A t \in BagToSet(httpTasks) :
             RouteResponds(t, TRUE) => CommandEffects(t.target)
       /\ \A t \in BagToSet(tasks) :
             (t.kind = "flic" /\ WaitConfirmed(t)) => CommandEffects(t.target)]_vars

\* C23 for the button handler alone, which the code satisfies
C23_ButtonCommandUpdatesAndTriggers ==
    [][\A t \in BagToSet(tasks) :
          (t.kind = "flic" /\ WaitConfirmed(t)) => CommandEffects(t.target)]_vars

PhasesInOrder(data) ==
    <<[phase |-> "L1", amperage |-> data.l1],
      [phase |-> "L2", amperage |-> data.l2],
      [phase |-> "L3", amperage |-> data.l3]>>

C26_ThresholdCheckExact ==
    thresholdCall # <<>> =>
       LET call == thresholdCall[1]
           Above(entry) == entry.amperage > call.threshold IN
       /\ call.exceeds <=> \/ call.data.l1 > call.threshold
                           \/ call.data.l2 > call.threshold
                           \/ call.data.l3 > call.threshold
       /\ call.phases = SelectSeq(PhasesInOrder(call.data), Above)

\* a call with L1 at the threshold and L2 and L3 above it
C26_Witness ==
    /\ thresholdCall # <<>>
    /\ thresholdCall[1].threshold = AMPERAGE_THRESHOLD
    /\ thresholdCall[1].data.l1 = AMPERAGE_THRESHOLD
    /\ thresholdCall[1].data.l2 > AMPERAGE_THRESHOLD
    /\ thresholdCall[1].data.l3 > thresholdCall[1].data.l2
    /\ Len(thresholdCall[1].phases) = 2

\* ------------------------------------------------------------------------
\* C27: what a subscriber has read, followed by what is pending for it, is
\* its connected event and then the events broadcast since it subscribed, in
\* the order of their broadcast, each exactly once and none merged; a
\* subscriber that is still connected has all of them.
SeenOrPending(id) == received[id] \o streams[id].queue

C27_SubscribersSeeBroadcastOrder ==
    \A id \in DOMAIN streams :
       /\ \A i \in 1..Len(SeenOrPending(id)) :
             SeenOrPending(id)[i] =
                IF i = 1 THEN [type |-> "connected", n |-> id]
                         ELSE [type |-> "mcb_status",
                               n |-> subscribedAt[id] + i - 1]
       /\ (id \in ClientIds(clients) /\ streams[id].state = "readable") =>
             Len(SeenOrPending(id)) = 1 + ssePublished - subscribedAt[id]

\* two subscribers, the second of which subscribed after the first event,
\* have read every event broadcast to them
C27_Witness ==
    /\ ssePublished = MaxSsePublishes
    /\ Len(received) = 2
    /\ subscribedAt = <<0, 1>>
    /\ Len(received[1]) = 1 + ssePublished
    /\ Len(received[2]) = ssePublished
    /\ ClientIds(clients) = {1, 2}

\* ------------------------------------------------------------------------
\* C28: a subscriber holds at most 8 pending events: when an event is
\* broadcast while 8 are pending for it, the oldest pending one is discarded,
\* so that a subscriber that reads nothing during 20 broadcasts has exactly
\* the last 8 pending (s13..s20), in order.
PendingEvents(id) ==
    LET Broadcasted(e) == e.type # "connected" IN
    SelectSeq(streams[id].queue, Broadcasted)

C28_AtMostEightPending ==
    \A id \in DOMAIN streams :
       /\ Len(PendingEvents(id)) <= 8
       /\ (ssePublished = 20 /\ subscribedAt[id] = 0 /\ received[id] = <<>>) =>
             PendingEvents(id) = [i \in 1..8 |-> [type |-> "mcb_status", n |-> 12 + i]]

\* ------------------------------------------------------------------------
\* C29: the first event of a new subscriber is the current snapshot, that
\* is the state as of the last event broadcast before it subscribed, ahead
\* of every event broadcast later.
C29_FirstEventIsCurrentSnapshot ==
    \A id \in DOMAIN streams :
       SeenOrPending(id) # <<>> =>
          SeenOrPending(id)[1] = [type |-> "mcb_status", n |-> subscribedAt[id]]

\* ------------------------------------------------------------------------
\* C30: a broadcast removes from the client list every client whose enqueue
\* fails and delivers the event to every other connected client; a client
\* that is no longer in the list gets no event afterwards and never comes
\* back.
C30_FailedSubscriberRemoved ==
    [][/\ ssePublished' = ssePublished + 1 =>
             \A id \in ClientIds(clients) :
                IF streams[id].state = "readable"
                THEN /\ id \in ClientIds(clients')
                     /\ streams'[id].queue =
                           Append(streams[id].queue,
                                  [type |-> "mcb_status", n |-> ssePublished + 1])
                ELSE /\ id \notin ClientIds(clients')
                     /\ streams'[id] = streams[id]
       /\ \A id \in DOMAIN streams \ ClientIds(clients) :
             /\ id \notin ClientIds(clients')
             /\ streams'[id].queue \in {streams[id].queue, <<>>}
                   \/ streams'[id].queue = Tail(streams[id].queue)]_vars

\* the stream of the first of two subscribers broke after it had read one
\* event; a broadcast has removed it, and the second subscriber has every
\* event
C30_Witness ==
    /\ Len(streams) = 2
    /\ subscribedAt = <<0, 0>>
    /\ streams[1].state = "broken"
    /\ Len(received[1]) = 2
    /\ ClientIds(clients) = {2}
    /\ ssePublished >= 2
    /\ Len(SeenOrPending(2)) = 1 + ssePublished

\* ------------------------------------------------------------------------
\* C31: a safety-shutdown or temperature notification is handed to the
\* sender only in a step in which the limiter allows its kind; a send that
\* was not checked against the limiter is a custom one, started by the test
\* route.
C31_SystemSendsPassLimiter ==
    [][\A n \in BagToSet(notifs') :
          CopiesIn(n, notifs') > CopiesIn(n, notifs) =>
             IF n.kind \in Kinds
             THEN /\ n.tnow = now
                  /\ now - cooldownState[n.kind] >= COOLDOWN_DURATIONS[n.kind]
             ELSE n.kind = "custom" /\ TestNotify]_vars

\* inside the cooldown of a temperature alert that was sent, a test
\* notification is in flight and no alert is
C31_Witness ==
    /\ lastSent["temperature"] # 0
    /\ now - cooldownState["temperature"] < COOLDOWN_DURATIONS["temperature"]
    /\ lastTemperature = <<TemperatureAlertCelsius>>
    /\ \E n \in BagToSet(notifs) : n.kind = "custom" /\ n.tnow = now
    /\ \A n \in BagToSet(notifs) : n.kind = "custom"

\* ------------------------------------------------------------------------
\* C32: once stopMonitoringLoop has stopped the loop (the last call of the
\* two is a stop, and the loop has ended), no ventilator timer is armed, no
\* poll ran after the stop, no adapter holds a connection and the
\* broadcaster has no client.
LastLifeCall == IF lifeCalls = <<>> THEN "none" ELSE lifeCalls[Len(lifeCalls)]

ShutdownCompleted ==
    /\ LastLifeCall = "stop"
    /\ "start" \in {lifeCalls[i] : i \in DOMAIN lifeCalls}
    /\ ~isRunning
    /\ loopPc = "none"

C32_ShutdownReleasesEverything ==
    ShutdownCompleted =>
       /\ armedTimers = {}
       /\ delayedOffTimer = <<>>
       /\ keepAliveTimer = <<>>
       /\ ~polledAfterStop
       /\ openAdapters = {}
       /\ clients = <<>>

\* ------------------------------------------------------------------------
\* C40: when the last call of the two was a startMonitoringLoop that came
\* after a stopMonitoringLoop, monitoring is running: isRunning is set and
\* the body of the loop is active.
StartedAfterStop ==
    /\ Len(lifeCalls) >= 2
    /\ lifeCalls[Len(lifeCalls)] = "start"
    /\ lifeCalls[Len(lifeCalls) - 1] = "stop"

C40_RestartRuns == StartedAfterStop => isRunning /\ loopPc # "none"

\* ------------------------------------------------------------------------
\* C33: the safety path calls turnOff only in a step that starts with mcb
\* ON and the safety feature enabled. A phase reading handled in any other
\* state is stored and broadcast as a sensor_data event, and neither a
\* turnOff is called nor lastSwitchOffTime or mcb changed in that step.
C33_SafetyOnlyWhenOnAndEnabled ==
    [][/\ SafetyOffIssued => mcbStatus = "ON" /\ safetyEnabled
       /\ (PhaseStep /\ ~(mcbStatus = "ON" /\ safetyEnabled))
            => /\ lastSensorData' = phaseData'
               /\ safetyOffCalls' = safetyOffCalls
               /\ tasks' = tasks
               /\ lastSwitchOffTime' = lastSwitchOffTime
               /\ mcbStatus' = mcbStatus
               /\ mcbPublishCount' = mcbPublishCount]_vars

\* with the safety feature enabled, an over-threshold reading has been
\* handled while mcb was not ON: it is stored and broadcast, and the safety
\* path has never called turnOff
C33_Witness ==
    /\ safetyEnabled
    /\ mcbStatus = "OFF"
    /\ phaseData # <<>>
    /\ AnyPhaseOver(phaseData[1])
    /\ lastSensorData = phaseData
    /\ safetyOffCalls = <<>>
    /\ lastSwitchOffTime = INITIAL_MONITORING_STATE.lastSwitchOffTime

\* ------------------------------------------------------------------------
\* C34: the handlers of the ventilator and of the floor heating for MCB OFF
\* are called only in a step in which the supervisor's mcb goes from ON to
\* OFF, hence once per transition, whoever reports it.
OffHandlersCalled ==
    /\ mcbPublishCount' # mcbPublishCount
    /\ lastPeripherals' \cap {"handleMcbOffVentilator", "handleMcbOffFloorHeating"} # {}

C34_OffHandlersOncePerTransition ==
    [][OffHandlersCalled => mcbStatus = "ON" /\ mcbStatus' = "OFF"]_vars

\* ------------------------------------------------------------------------
\* C35: when a delayed-off callback has finished and left the service idle,
\* and handleMcbOn has not been called since, no keep-alive cycle requests
\* the relay ON.
C35_NoRelayOnAfterDelayedOff ==
    [][\A t \in BagToSet(ventTasks) :
          (/\ t.op = "tick"
           /\ t.pc = "on"
           /\ \E ok \in BOOLEAN : resetKeepAliveResumes(t, ok)) =>
              ~(VentIdle /\ ventHistory.delayedOffDone)]_vars

\* ------------------------------------------------------------------------
\* C36: the callback of the delayed-off timeout, which commands the relay
\* OFF, does not run while the supervisor's mcb is ON, and a step in which
\* mcb becomes ON leaves no delayed-off timeout armed.
C36_NoDelayedOffWhileMcbOn ==
    [][/\ \A timer \in armedTimers : DelayedOffFires(timer) => mcbStatus # "ON"
       /\ (mcbStatus # "ON" /\ mcbStatus' = "ON") => armedTimers' = {}]_vars

\* ------------------------------------------------------------------------
\* C37: when no command of a button or of an HTTP route is suspended at an
\* await, the status of the last mcb_status event is the supervisor's mcb.
C37_LastEventIsMcbState ==
    (tasks = EmptyBag /\ httpTasks = EmptyBag /\ lastPublished # <<>>)
        => lastPublished[1] = mcbStatus

\* ------------------------------------------------------------------------
\* C38: when no floor-heating call is suspended and none has failed, the
\* target last commanded to the thermostat is the one of the supervisor's
\* mcb: targetTempOn for ON, targetTempOff for OFF.
C38_FloorTargetMatchesMcb ==
    (floorTasks = EmptyBag /\ ~floorFailed /\ floorTarget # <<>>)
        => floorTarget = <<IF mcbStatus = "ON" THEN "targetTempOn"
                                               ELSE "targetTempOff">>

\* ------------------------------------------------------------------------
\* C39: with the three fields of the accumulator set, the handling of a
\* phase message with an amperage field and a number as payload gives
\* onPhase one reading: the new value for that field, the accumulator's
\* values for the other two.
AccumulatorComplete ==
    /\ phaseAccumulator.l1_a # <<>>
    /\ phaseAccumulator.l2_a # <<>>
    /\ phaseAccumulator.l3_a # <<>>

ReadingAfter(field, v) ==
    [l1 |-> IF field = "l1_a" THEN <<v>> ELSE phaseAccumulator.l1_a,
     l2 |-> IF field = "l2_a" THEN <<v>> ELSE phaseAccumulator.l2_a,
     l3 |-> IF field = "l3_a" THEN <<v>> ELSE phaseAccumulator.l3_a,
     lastUpdate |-> mqttNow]

C39_UpdateEmitsLatestValues ==
    [][\A field \in {"l1_a", "l2_a", "l3_a"}, payload \in {"0", "12.0"} :
          (/\ AccumulatorComplete
           /\ MqttPhaseMessage(<<"p1monitor", "phase", field>>, payload)) =>
              /\ phaseOut' = <<ReadingAfter(field, IF payload = "0" THEN 0 ELSE 12)>>
              /\ sensorPhase' = phaseOut']_vars

\* on a connection on which only l2 has been received, a new value of l2
\* has given a reading with it and with the older values of l1 and l3
C39_Witness ==
    /\ seenSinceConnect = {"l2_a"}
    /\ phaseIn = <<[field |-> "l2_a", value |-> 12]>>
    /\ phaseOut # <<>>
    /\ phaseOut[1].l1 = <<0>>
    /\ phaseOut[1].l2 = <<12>>
    /\ phaseOut[1].l3 = <<0>>
    /\ sensorPhase = phaseOut

====
